---- MODULE Spec2Model ----
(***************************************************************************)
(* psvc: framed transport (network.py), command dispatcher (cmd.py),       *)
(* update client/server (release.py) and the service's run mode (main.py), *)
(* modelled as state machines.                                             *)
(*                                                                         *)
(* The module holds these machines over disjoint groups of variables:      *)
(*   SpecNet     one data socket: Socket._send writing frames to the       *)
(*               stream, Socket._data_handler reading them into            *)
(*               _recv_queue;                                              *)
(*   Spec        one Commander: EndPoint.recv_any over the data sockets,   *)
(*               the receive loop Commander._receive, Commander.call and   *)
(*               _execute with handle_lock and the call stack;             *)
(*   SpecRecvAny EndPoint.recv_any called in a loop, under weak fairness;  *)
(*   SpecUpd     an Updater pulling a version from a Releaser over one     *)
(*   SpecPush    connection, and the Releaser pushing one;                 *)
(*   SpecCat     the Releaser's catalog of versions and its three request  *)
(*               handlers, with builds, approvals and rollbacks between    *)
(*               the requests;                                             *)
(*   SpecSvc     Service._run and Service._service: the main task, the     *)
(*               tasks registered with append_task, the closers;           *)
(*   SpecIns     Updater.install_update and the version it persists;       *)
(*   SpecHo      the handoff from a running version to its successor:      *)
(*               download, restart_service, the apply stage, the relaunch; *)
(*   SpecRel     Service.build, release and rollback on the release        *)
(*               directory, and the version list served from it;           *)
(*   SpecSer     the serials EndPoint takes for its sockets;               *)
(*   SpecRaw     Socket._data_handler reading a stream whose headers the   *)
(*               peer writes itself;                                       *)
(*   SpecSvcLive SpecSvc under weak fairness of the ends of run() and      *)
(*               destroy() and of _run's own steps;                        *)
(*   SpecReg     Commander.set_command and the table of handlers;          *)
(*   SpecRf      Socket.recv_file reading the frames of its queue;         *)
(*   SpecRq      the Updater's request methods called one after the other  *)
(*               and the Releaser answering.                               *)
(* Each machine leaves the other groups unchanged.                         *)
(***************************************************************************)
EXTENDS Integers, Sequences, FiniteSets, TLC

(***************************************************************************)
(* Bounds of the model and constants of the program                        *)
(***************************************************************************)
\* Socket._max_size = 64 * 1024
MaxSize == 65536

\* number of send() calls of one run of SpecNet
MaxMsgs == 3

\* a connection reset keeps a prefix of the bytes in flight; the prefixes
\* tried are those of at most MaxCut bytes and the whole stream less 0 or 1
MaxCut == 5

Min(a, b) == IF a <= b THEN a ELSE b

None == "None"

(***************************************************************************)
(* Variables                                                               *)
(***************************************************************************)
VARIABLES
  \* ---- SpecNet: one established connection, sender side and receiver side
  wire,        \* bytes written by the sender's StreamWriter and not yet read
  conn,        \* "open" | "eof": the stream has ended (peer close or reset)
  s_msg,       \* the message Socket._send is sending, or NoMsg
  s_i,         \* _send's index i into the message
  s_count,     \* number of send() calls made
  s_result,    \* outcome of the last send(): None | "ok" | "ValueError"
  written,     \* history: the frames _send has written, in order
  h_pc,        \* _data_handler: "header" | "body" | "closed"
  h_size,      \* _data_handler's size
  h_exc,       \* how _data_handler ended: None | the exception
  recv_queue,  \* Socket._recv_queue
  received,    \* history: the frames recv() has returned, in order
  \* ---- Spec, SpecRecvAny: one Commander and the EndPoint it owns
  next_serial,   \* the counter behind svc.next_socket_serial()
  data_sockets,  \* EndPoint._data_sockets: its serials in insertion order
  sock_queue,    \* serial -> Socket._recv_queue
  sock_closed,   \* serial -> Socket._closed is set
  arrived,       \* serial -> number of frames its _data_handler enqueued
  recv_event,    \* EndPoint._recv_event is set
  r_pc,          \* Commander._receive: "poll" | "wait" | "call" | "done"
  r_cur,         \* the (serial, frame number) _receive is dispatching
  r_exc,         \* what ended _receive: None | the exception
  handle_lock,   \* Commander._handle_lock: "free" | the task holding it
  call_stack,    \* Commander._call_stack
  act,           \* task -> its stack of call() activations, outermost first
  x_count,       \* number of call() invocations made by the other task
  x_result,      \* outcome of its last call(): None | "ok" | the exception
  started,       \* history: serial -> frame numbers whose handler started
  finished,      \* history: serial -> frame numbers whose handler ended
  faults,        \* history: the frames whose dispatch raised, with the exception
  ra_ret         \* the (serial, data) recv_any returned last to its caller

\* Releaser (server process) and Updater (client process) over one connection
VARIABLES
  rel_disk,      \* release directory of the served version: path -> content
  tampered,      \* number of changes made to the release directory
  rel_in,        \* envelopes sent by the client, not yet dispatched by the Releaser
  rel_pc,        \* Releaser's receive loop: "recv" | "file" | "chunk" | "complete" | "done"
  rel_ver,       \* version being streamed by _cmd_download_update
  rel_i,         \* index in the manifest of the file being streamed
  rel_off,       \* bytes of that file already sent
  upd_in,        \* frames in the _recv_queue of the client's data socket
  conn_closed,   \* the connection was closed by either side
  sock_removed,  \* the client's EndPoint no longer tracks the socket
  loop_pc,       \* client's receive loop: "recv" | "apply" | "size" | "chunk" | "done"
  loop_exc,      \* the exception that ended it
  loop_body,     \* body of the __apply_update__ being handled
  loop_files,    \* files of the __download_start__ being handled
  loop_ver,      \* its version
  loop_i,        \* index of the file being received
  loop_fsize,    \* recv_file: fsize
  loop_rsize,    \* recv_file: rsize
  loop_tag,      \* digest of the bytes written to the file so far
  stage,         \* <update_path>/<version>/: path -> content
  saved_args,    \* version written to saved_args.json
  download_completed, \* Updater._download_completed (asyncio.Event)
  download_status,    \* Updater._download_status
  download_error,     \* Updater._download_error
  d_pc,          \* the task calling download_update: "idle" | "wait" | "woken" | "done"
  d_count,       \* number of its calls
  d_result,      \* what its last call returned or raised
  d_msg,         \* the message of the error it raised
  d_failed,      \* history: the error of the __download_failed__ the Releaser sent since the call
  push_count,    \* number of __force_update__ commands sent to the Releaser
  a_result,      \* how the last __apply_update__ handler ended
  closers,       \* Service._closers
  sigterm,       \* Service._sigterm
  timely,        \* history: no wait_for timed out while a peer could still act
  integrity,     \* history: manifest entries whose received file failed verification
  recorded       \* history: what was staged each time a download was recorded complete

\* Releaser over its release catalog, answering one connection
VARIABLES
  cat_status,    \* release directory: version directory -> its state on disk
  cat_ops,       \* number of changes made to the release directory
  versions,      \* Releaser.versions
  cat_in,        \* envelopes received on the connection, not yet dispatched
  cat_reqs,      \* number of envelopes the peer has sent
  cat_pc,        \* the Releaser's receive loop: "recv" | "file" | "complete" | "done"
  cat_req,       \* the envelope dispatched last
  cat_at,        \* history: cat_status when that envelope was dispatched
  cat_i,         \* _cmd_download_update: index of the next file of the manifest
  cat_sent,      \* history: what was sent on the connection for that envelope
  cat_closed     \* the peer has closed the connection

\* Service in run mode: _run, the main service task _service, one more task
VARIABLES
  run_pc,        \* _run: "new" | "gather" | "drain" | "closing" | "closers" | "end" | "interrupted"
  status,        \* Service.status
  status_log,    \* history: the values _set_status was called with
  svc_pc,        \* _service: "new" | "init" | "run" | "destroy" | "done"
  svc_cancel,    \* task.cancel() was called on it and CancelledError is not yet thrown
  svc_sigterm,   \* Service._sigterm is set
  init_end,      \* history: how init() ended: None | "returned" | "raised" | "cancelled"
  run_calls,     \* history: number of invocations of run()
  destroy_calls, \* history: number of invocations of destroy()
  destroy_end,   \* history: how destroy() ended: None | "returned" | "raised" | "cancelled"
  worker,        \* the tasks added with append_task: name -> "none" | "running" | "cancelling" | "done"
  gathered,      \* the tasks the current run_until_complete(gather(...)) waits for
  loop_closed,   \* the event loop was closed
  svc_closers,   \* Service._closers
  closer_i,      \* _run: position of its for loop over _closers
  closer_calls   \* history: the closers invoked, in order

\* Updater.install_update over the stage directory, the install directory and the config file
VARIABLES
  staged,        \* versions whose directory is in the download path
  ins_status,    \* Updater._download_status
  ins_latest,    \* Updater._latest_version
  cfg_mem,       \* Config._config['PSVC']['version']
  cfg_file,      \* the same key in the config file
  svc_version,   \* Service.version
  deployed,      \* versions whose files were copied to the install directory, in order
  ins_count,     \* number of calls of install_update
  ins_target,    \* the version the last call resolved
  ins_result     \* how the last call ended: None | "ok" | the exception

\* the self-replacement handoff: the running service, the stage directories
\* under the update path, the install root and the processes spawned
VARIABLES
  ho_pc,         \* the service process: "off" | "new" | "run" | "download" | "install" | "stopping" | "exited" | "usage error"
  platform,      \* sys.platform of the host: "posix" | "win32"
  sys_argv,      \* sys.argv of the service process
  run_version,   \* Service.version of the service process
  ho_path,       \* what started the download: "install" | "push" | "auto" | "call"
  ho_target,     \* the version that download is for
  stage_args,    \* per stage directory its saved_args.json (NoArgs: none)
  stage_seq,     \* number of stages written so far (the timestamp of the next)
  root,          \* the install root: per file name the version it holds, or None
  root_cfg,      \* PSVC\version in the config file
  ap_pc,         \* the process spawned in apply mode: "none" | "launched" | "usage error" | "apply" | "done" | "FileNotFoundError"
  ap_argv,       \* its command line
  ap_by,         \* who launched it: "closer" | "operator"
  ap_saved,      \* history: the saved_args.json apply loaded
  ap_newest,     \* history: the most recent saved_args.json among the stages when apply ran
  applied,       \* history: the stages apply has run for and nothing was downloaded to since
  ho_for,        \* history: the version of the handoff that started the service process
  handoffs       \* number of apply runs that spawned a successor

\* the release directory under build, release and rollback, and the reply to
\* a __request_versions__ that follows
VARIABLES
  man,           \* per version directory: the status and rollback_target of its status.json
  man_ops,       \* number of build, release and rollback calls so far
  last_op,       \* history: the last of them, with the manifests it found
  rv_reply,      \* history: the reply to a __request_versions__ since then
  rv_done        \* whether there was one

\* the serials of one service and the sockets of its EndPoint
VARIABLES
  socket_serial, \* the next value of the counter behind next_socket_serial()
  issued,        \* history: the serials next_socket_serial() returned, in order
  ep_sockets,    \* EndPoint._sockets: the serials registered
  ep_servers,    \* EndPoint._server_sockets: those of server sockets
  ep_closed,     \* the registered data sockets whose connection has ended
  ep_removed,    \* history: the serials _remove_socket has removed
  ep_failed      \* history: the serials taken by a connect() that raised

\* Commander.set_command: the table of handlers
VARIABLES
  reg_cmds,      \* Commander._cmds: ident -> the function registered (0: none)
  reg_call,      \* the arguments of the last set_command call
  reg_result,    \* what that call did: "ok" | "ValueError" | "TypeError"
  reg_count      \* number of set_command calls so far

\* Socket.recv_file: one call, reading the frames of its socket's queue
VARIABLES
  rf_in,         \* _recv_queue: the frames received and not yet taken
  rf_arrived,    \* number of frames that have arrived
  rf_pc,         \* "size" | "chunk" | "returned" | "raised"
  rf_opened,     \* the size frame was parsed and the target file opened
  rf_fsize,      \* fsize
  rf_rsize,      \* rsize
  rf_file,       \* the bytes written to the target file
  rf_taken       \* history: the frames recv() gave to the loop, in order

\* Updater.fetch_versions / fetch_latest_version / download_update, called
\* one after the other by one task, and the Releaser answering
VARIABLES
  rq_pc,         \* "idle" | "wait": the caller is in wait_for
  rq_call,       \* the call being made: its number, kind and version
  rq_count,      \* number of calls so far
  rq_event,      \* kind -> the Event of that kind is set
  rq_value,      \* kind -> the field the handler of that kind stores
  rq_result,     \* what the last call ended with
  srv_in,        \* requests on their way to the Releaser, or waiting in it
  rq_in,         \* replies on their way to the Updater
  srv_latest     \* the latest version the Releaser has

netVars == <<wire, conn, s_msg, s_i, s_count, s_result, written,
             h_pc, h_size, h_exc, recv_queue, received>>

cmdVars == <<next_serial, data_sockets, sock_queue, sock_closed, arrived,
             recv_event, r_pc, r_cur, r_exc, handle_lock, call_stack, act,
             x_count, x_result, started, finished, faults, ra_ret>>

updVars == <<rel_disk, tampered, rel_in, rel_pc, rel_ver, rel_i, rel_off, upd_in,
             conn_closed, sock_removed, loop_pc, loop_exc, loop_body, loop_files,
             loop_ver, loop_i, loop_fsize, loop_rsize, loop_tag, stage, saved_args,
             download_completed, download_status, download_error, d_pc, d_count,
             d_result, d_msg, d_failed, push_count, a_result, closers, sigterm,
             timely, integrity, recorded>>

catVars == <<cat_status, cat_ops, versions, cat_in, cat_reqs, cat_pc,
             cat_req, cat_at, cat_i, cat_sent, cat_closed>>

svcVars == <<run_pc, status, status_log, svc_pc, svc_cancel, svc_sigterm, init_end,
             run_calls, destroy_calls, destroy_end, worker, gathered, loop_closed,
             svc_closers,
             closer_i, closer_calls>>

insVars == <<staged, ins_status, ins_latest, cfg_mem, cfg_file, svc_version, deployed,
             ins_count, ins_target, ins_result>>

hoVars == <<ho_pc, platform, sys_argv, run_version, ho_path, ho_target, stage_args,
            stage_seq, root, root_cfg, ap_pc, ap_argv, ap_by, ap_saved, ap_newest,
            applied, ho_for, handoffs>>

relVars == <<man, man_ops, last_op, rv_reply, rv_done>>

serVars == <<socket_serial, issued, ep_sockets, ep_servers, ep_closed, ep_removed, ep_failed>>

regVars == <<reg_cmds, reg_call, reg_result, reg_count>>

rfVars == <<rf_in, rf_arrived, rf_pc, rf_opened, rf_fsize, rf_rsize, rf_file, rf_taken>>

rqVars == <<rq_pc, rq_call, rq_count, rq_event, rq_value, rq_result, srv_in, rq_in,
            srv_latest>>

lateVars == <<regVars, rfVars, rqVars>>

extVars == <<catVars, svcVars, insVars, hoVars, relVars, serVars, lateVars>>

vars == <<netVars, cmdVars, updVars, extVars>>

(***************************************************************************)
(* Byte strings.  A message is named by an id and has a length; its bytes  *)
(* are ByteOf(id, 0..len-1).  A stretch of a stream is a sequence of runs: *)
(* a run is either literal bytes (id = 0) or the slice [off, off+len) of   *)
(* message id.                                                             *)
(***************************************************************************)
Lit(bytes) == [id |-> 0, off |-> 0, len |-> Len(bytes), bytes |-> bytes]
Ref(id, off, len) == [id |-> id, off |-> off, len |-> len, bytes |-> <<>>]

\* the i-th byte (from 0) of message id
ByteOf(id, i) == (id * 37 + i) % 128

RunByte(r, i) == IF r.id = 0 THEN r.bytes[i + 1] ELSE ByteOf(r.id, r.off + i)

\* n bytes of run r from its a-th byte
RunSlice(r, a, n) ==
  IF r.id = 0 THEN Lit(SubSeq(r.bytes, a + 1, a + n))
  ELSE Ref(r.id, r.off + a, n)

RECURSIVE BytesLen(_)
BytesLen(w) == IF w = <<>> THEN 0 ELSE Head(w).len + BytesLen(Tail(w))

RECURSIVE Take(_, _)
Take(w, n) ==
  IF n <= 0 \/ w = <<>> THEN <<>>
  ELSE IF Head(w).len <= n
       THEN <<Head(w)>> \o Take(Tail(w), n - Head(w).len)
       ELSE <<RunSlice(Head(w), 0, n)>>

RECURSIVE Drop(_, _)
Drop(w, n) ==
  IF n <= 0 \/ w = <<>> THEN w
  ELSE IF Head(w).len <= n
       THEN Drop(Tail(w), n - Head(w).len)
       ELSE <<RunSlice(Head(w), n, Head(w).len - n)>> \o Tail(w)

\* the byte values of a short stretch
RECURSIVE Flatten(_)
Flatten(w) ==
  IF w = <<>> THEN <<>>
  ELSE [i \in 1..Head(w).len |-> RunByte(Head(w), i - 1)] \o Flatten(Tail(w))

\* struct.pack('!I', size): four bytes, most significant first
Pack(size) ==
  << (size \div 16777216) % 256, (size \div 65536) % 256,
     (size \div 256) % 256, size % 256 >>

\* struct.unpack('!I', raw)
Unpack(raw) == raw[1] * 16777216 + raw[2] * 65536 + raw[3] * 256 + raw[4]

(***************************************************************************)
(* Socket.send / Socket._send                                              *)
(***************************************************************************)
\* no message being sent
NoMsg == [id |-> 0, len |-> 0]

\* the lengths of the messages the application sends
MsgLens == {0, 1, MaxSize, MaxSize + 1}

\* _send: size = min(Socket._max_size, n - i)
ChunkSizeWhole(n, i) == Min(MaxSize, n)
ChunkSize(n, i) == Min(MaxSize, n - i)

\* _send: buf = mv[i:i+size]; a slice stops at the end of the message
BufSlice(m, i, size) == Ref(m.id, i, Min(size, m.len - i))

\* send(msg): an empty message raises ValueError, else _send starts
NetSend(len) ==
  /\ s_msg = NoMsg
  /\ conn = "open"
  /\ s_count < MaxMsgs
  /\ s_count' = s_count + 1
  /\ IF len <= 0
     THEN /\ s_result' = "ValueError"
          /\ UNCHANGED <<s_msg, s_i>>
     ELSE /\ s_msg' = [id |-> s_count + 1, len |-> len]
          /\ s_i' = 0
          /\ s_result' = None
  /\ UNCHANGED <<wire, conn, written, h_pc, h_size, h_exc, recv_queue, received>>
  /\ UNCHANGED <<cmdVars, updVars, extVars>>

\* one turn of _send's loop: write the header, write buf, drain, i += size
NetSendChunk ==
  /\ s_msg # NoMsg
  /\ conn = "open"
  /\ LET size == ChunkSize(s_msg.len, s_i)
         buf  == BufSlice(s_msg, s_i, size)
     IN /\ wire' = wire \o <<Lit(Pack(size))>> \o (IF buf.len > 0 THEN <<buf>> ELSE <<>>)
        /\ written' = Append(written, <<buf>>)
        /\ IF s_i + size < s_msg.len
           THEN /\ s_i' = s_i + size
                /\ UNCHANGED <<s_msg, s_result>>
           ELSE /\ s_msg' = NoMsg
                /\ s_i' = 0
                /\ s_result' = "ok"
  /\ UNCHANGED <<conn, s_count, h_pc, h_size, h_exc, recv_queue, received>>
  /\ UNCHANGED <<cmdVars, updVars, extVars>>

(***************************************************************************)
(* The stream ending                                                       *)
(***************************************************************************)
\* the peer closes its writer: what was written still arrives, then EOF
NetPeerClose ==
  /\ conn = "open"
  /\ conn' = "eof"
  /\ UNCHANGED <<wire, s_msg, s_i, s_count, s_result, written,
                 h_pc, h_size, h_exc, recv_queue, received>>
  /\ UNCHANGED <<cmdVars, updVars, extVars>>

CutPoints(n) == {k \in (0..Min(MaxCut, n)) \cup {n - 1, n} : k >= 0}

\* the connection is reset: only a prefix of the bytes in flight arrives
NetReset ==
  /\ conn = "open"
  /\ \E k \in CutPoints(BytesLen(wire)) :
       wire' = Take(wire, k)
  /\ conn' = "eof"
  /\ UNCHANGED <<s_msg, s_i, s_count, s_result, written,
                 h_pc, h_size, h_exc, recv_queue, received>>
  /\ UNCHANGED <<cmdVars, updVars, extVars>>

(***************************************************************************)
(* Socket._data_handler                                                    *)
(***************************************************************************)
\* a header check that lets the length 0 through
HeaderOkLoose(size) == ~(size < 0 \/ size > MaxSize)

\* the header check of _data_handler
HeaderOk(size) == ~(size <= 0 \/ size > MaxSize)

\* raw = await readexactly(4); unpack; check; a bad length raises ValueError
\* and the finally clause closes the connection
NetReadHeader ==
  /\ h_pc = "header"
  /\ BytesLen(wire) >= 4
  /\ LET size == Unpack(Flatten(Take(wire, 4)))
     IN IF HeaderOk(size)
        THEN /\ h_size' = size
             /\ h_pc' = "body"
             /\ wire' = Drop(wire, 4)
             /\ UNCHANGED h_exc
        ELSE /\ h_pc' = "closed"
             /\ h_exc' = "ValueError"
             /\ wire' = Drop(wire, 4)
             /\ UNCHANGED h_size
  /\ UNCHANGED <<conn, s_msg, s_i, s_count, s_result, written, recv_queue, received>>
  /\ UNCHANGED <<cmdVars, updVars, extVars>>

\* buf = await readexactly(size); await _recv_queue.put(buf)
NetReadBody ==
  /\ h_pc = "body"
  /\ BytesLen(wire) >= h_size
  /\ recv_queue' = Append(recv_queue, Take(wire, h_size))
  /\ wire' = Drop(wire, h_size)
  /\ h_pc' = "header"
  /\ UNCHANGED <<conn, s_msg, s_i, s_count, s_result, written, h_size, h_exc, received>>
  /\ UNCHANGED <<cmdVars, updVars, extVars>>

\* readexactly meets the end of the stream: IncompleteReadError, then the
\* finally clause closes the connection
NetReadEOF ==
  /\ h_pc \in {"header", "body"}
  /\ conn = "eof"
  /\ BytesLen(wire) < (IF h_pc = "header" THEN 4 ELSE h_size)
  /\ h_pc' = "closed"
  /\ h_exc' = "IncompleteReadError"
  /\ wire' = <<>>
  /\ UNCHANGED <<conn, s_msg, s_i, s_count, s_result, written, h_size, recv_queue, received>>
  /\ UNCHANGED <<cmdVars, updVars, extVars>>

\* Socket.close(): the handler task is cancelled at its await
NetCancel ==
  /\ h_pc \in {"header", "body"}
  /\ h_pc' = "closed"
  /\ h_exc' = "CancelledError"
  /\ UNCHANGED <<wire, conn, s_msg, s_i, s_count, s_result, written, h_size,
                 recv_queue, received>>
  /\ UNCHANGED <<cmdVars, updVars, extVars>>

\* Socket.recv(): await _recv_queue.get()
NetRecv ==
  /\ recv_queue # <<>>
  /\ received' = Append(received, Head(recv_queue))
  /\ recv_queue' = Tail(recv_queue)
  /\ UNCHANGED <<wire, conn, s_msg, s_i, s_count, s_result, written, h_pc, h_size, h_exc>>
  /\ UNCHANGED <<cmdVars, updVars, extVars>>

\* the lengths a peer announces in a header it writes itself
RawHeaders == {0, 1, MaxSize, MaxSize + 1, 2147483647}

\* what readexactly is given by a peer that is not Socket._send: a header
\* announcing n, then the bytes it sends after it (no more than one frame
\* and a byte)
PeerWrite(n) ==
  /\ conn = "open"
  /\ s_count < MaxMsgs
  /\ s_count' = s_count + 1
  /\ LET sent == Min(n, MaxSize + 1)
     IN wire' = wire \o <<Lit(Pack(n))>>
                \o (IF sent > 0 THEN <<Ref(s_count + 1, 0, sent)>> ELSE <<>>)
  /\ UNCHANGED <<conn, s_msg, s_i, s_result, written,
                 h_pc, h_size, h_exc, recv_queue, received>>
  /\ UNCHANGED <<cmdVars, updVars, extVars>>

InitNetVars ==
  /\ wire = <<>>
  /\ conn = "open"
  /\ s_msg = NoMsg
  /\ s_i = 0
  /\ s_count = 0
  /\ s_result = None
  /\ written = <<>>
  /\ h_pc = "header"
  /\ h_size = 0
  /\ h_exc = None
  /\ recv_queue = <<>>
  /\ received = <<>>

NextNet ==
  \/ \E len \in MsgLens : NetSend(len)
  \/ NetSendChunk
  \/ NetPeerClose
  \/ NetReset
  \/ NetReadHeader
  \/ NetReadBody
  \/ NetReadEOF
  \/ NetCancel
  \/ NetRecv

\* the receiving side of a connection whose peer writes the stream itself
NextRaw ==
  \/ \E n \in RawHeaders : PeerWrite(n)
  \/ NetPeerClose
  \/ NetReadHeader
  \/ NetReadBody
  \/ NetReadEOF
  \/ NetCancel
  \/ NetRecv

(***************************************************************************)
(* EndPoint: data sockets, their queues, the fan-in event                  *)
(***************************************************************************)
\* data sockets the EndPoint accepts in one run
MaxSocks == 2

\* frames that arrive, over all connections, in one run
MaxFrames == 2

\* call() invocations made by a task other than the receive loop
MaxCalls == 1

\* frames that may wait in one _recv_queue in SpecRecvAny
MaxQueue == 1

Serials == 1..MaxSocks

\* the handlers registered with set_command()
Cmds == {"ok", "boom", "nest"}

\* the idents peers put in their envelopes
Idents == Cmds \cup {"ghost"}

\* a frame holding the envelope {"_ident": ident, "_body": ...}; n numbers
\* the frames of one connection in arrival order
Envelope(ident, n) == [kind |-> "json", ident |-> ident, n |-> n]

\* a frame that is not JSON
Garbage(n) == [kind |-> "garbage", ident |-> "", n |-> n]

FramesIn(n) == {Envelope(i, n) : i \in Idents} \cup {Garbage(n)}

RECURSIVE SumOver(_, _)
SumOver(f, S) ==
  IF S = {} THEN 0
  ELSE LET x == CHOOSE y \in S : TRUE IN f[x] + SumOver(f, S \ {x})

\* sockets whose _data_handler is running
IsOpen(s) == s < next_serial /\ ~sock_closed[s]

\* _on_client_connect: a fresh serial, registered in the maps, handler started,
\* _recv_event set
Connect ==
  /\ next_serial <= MaxSocks
  /\ r_pc # "done"
  /\ data_sockets' = Append(data_sockets, next_serial)
  /\ next_serial' = next_serial + 1
  /\ recv_event' = TRUE
  /\ UNCHANGED <<sock_queue, sock_closed, arrived, r_pc, r_cur, r_exc,
                 handle_lock, call_stack, act, x_count, x_result,
                 started, finished, faults, ra_ret>>
  /\ UNCHANGED <<netVars, updVars, extVars>>

\* _data_handler of socket s: a whole frame is put on _recv_queue and the
\* parent's _recv_event is set
Arrive(s, f) ==
  /\ IsOpen(s)
  /\ SumOver(arrived, Serials) < MaxFrames
  /\ f \in FramesIn(arrived[s] + 1)
  /\ sock_queue' = [sock_queue EXCEPT ![s] = Append(@, f)]
  /\ arrived' = [arrived EXCEPT ![s] = @ + 1]
  /\ recv_event' = TRUE
  /\ UNCHANGED <<next_serial, data_sockets, sock_closed, r_pc, r_cur, r_exc,
                 handle_lock, call_stack, act, x_count, x_result,
                 started, finished, faults, ra_ret>>
  /\ UNCHANGED <<netVars, updVars, extVars>>

\* _data_handler of socket s ends (peer close, bad header, reset):
\* _close_connection sets _closed; the EndPoint's maps are not touched
PeerClose(s) ==
  /\ IsOpen(s)
  /\ sock_closed' = [sock_closed EXCEPT ![s] = TRUE]
  /\ UNCHANGED <<next_serial, data_sockets, sock_queue, arrived, recv_event,
                 r_pc, r_cur, r_exc, handle_lock, call_stack, act, x_count,
                 x_result, started, finished, faults, ra_ret>>
  /\ UNCHANGED <<netVars, updVars, extVars>>

\* asyncio.Queue.get_nowait(): the oldest item
GetNowaitNewest(q) == [item |-> q[Len(q)], rest |-> SubSeq(q, 1, Len(q) - 1)]
GetNowait(q) == [item |-> Head(q), rest |-> Tail(q)]

\* recv_any's for loop over list(self._data_sockets.items()), from its k-th
\* entry: the first socket with a queued frame is taken; a socket met before
\* it that is empty and closed is removed
RECURSIVE PollFrom(_, _)
PollFrom(ds, k) ==
  IF k > Len(ds) THEN [found |-> FALSE, serial |-> 0, removed |-> {}]
  ELSE IF sock_queue[ds[k]] # <<>>
       THEN [found |-> TRUE, serial |-> ds[k], removed |-> {}]
       ELSE LET rest == PollFrom(ds, k + 1)
            IN [rest EXCEPT !.removed =
                  @ \cup (IF sock_closed[ds[k]] THEN {ds[k]} ELSE {})]

\* _remove_socket for every serial of S
Without(ds, S) == SelectSeq(ds, LAMBDA s : s \notin S)

(***************************************************************************)
(* Commander.call / Commander._execute                                     *)
(***************************************************************************)
Tasks == {"R", "X"}

\* call: `if not self._call_stack` chooses the locked path
CallAlwaysLocks(stack) == TRUE
CallNeedsLock(stack) == stack = <<>>

\* a finally clause that leaves the stack as it is
PopNothing(stack) == stack

\* self._call_stack.pop()
Pop(stack) == SubSeq(stack, 1, Len(stack) - 1)

\* an activation of call(): pc is "lock" (waiting for handle_lock), "run" (in
\* the handler, at its first await), "sub" (awaiting a nested call) or
\* "tail" (in the handler, after the nested call)
Activation(ident, pc, locked) == [ident |-> ident, pc |-> pc, locked |-> locked]

\* call(ident, ...) entered by a task, up to its first suspension or its
\* exception: what becomes of the call stack and the lock, and the
\* activation it leaves (out = "run"), or out = "lock" (it waits for
\* handle_lock), or out = "KeyError" (_execute found no handler)
Enter(ident, t) ==
  IF CallNeedsLock(call_stack) /\ handle_lock # "free"
  THEN [out |-> "lock", stack |-> call_stack, lock |-> handle_lock,
        a |-> Activation(ident, "lock", FALSE)]
  ELSE LET locked == CallNeedsLock(call_stack)
       IN IF ident \in Cmds
          THEN [out |-> "run", stack |-> Append(call_stack, ident),
                lock |-> IF locked THEN t ELSE handle_lock,
                a |-> Activation(ident, "run", locked)]
          ELSE [out |-> "KeyError", stack |-> call_stack, lock |-> handle_lock,
                a |-> Activation(ident, "run", FALSE)]

\* number of activations of a stack that are inside _execute
RECURSIVE Executing(_)
Executing(as) ==
  IF as = <<>> THEN 0
  ELSE (IF Head(as).pc = "lock" THEN 0 ELSE 1) + Executing(Tail(as))

RECURSIVE PopN(_, _)
PopN(stack, n) == IF n <= 0 \/ stack = <<>> THEN stack ELSE PopN(Pop(stack), n - 1)

\* the lock after task t has left every `async with` it was in
Released(t) == IF handle_lock = t THEN "free" ELSE handle_lock

\* close_all(): every socket is closed and removed from the maps
AllClosed == [s \in Serials |-> IF s < next_serial THEN TRUE ELSE sock_closed[s]]

MarkFinished(fin, cur) ==
  IF cur.serial = 0 THEN fin
  ELSE [fin EXCEPT ![cur.serial] = @ \cup {cur.n}]

NoCur == [serial |-> 0, n |-> 0]

LogStart(st, cur) == [st EXCEPT ![cur.serial] = Append(@, cur.n)]

\* the outermost call() of task t ends with res ("ok" or the exception that
\* leaves it).  For the receive loop an exception leaves `while True`, and
\* the finally clause of _receive runs close_all(); ds is _data_sockets as
\* recv_any left it
CallEnds(t, res, stk, lk, ds, cur) ==
  /\ call_stack' = stk
  /\ faults' = IF t = "R" /\ res \notin {"ok", "CancelledError"}
               THEN faults \cup {[serial |-> cur.serial, n |-> cur.n, exc |-> res]}
               ELSE faults
  /\ handle_lock' = lk
  /\ act' = [act EXCEPT ![t] = <<>>]
  /\ IF t = "R"
     THEN /\ finished' = MarkFinished(finished, r_cur)
          /\ r_cur' = NoCur
          /\ UNCHANGED x_result
          /\ IF res = "ok"
             THEN /\ r_pc' = "poll"
                  /\ data_sockets' = ds
                  /\ UNCHANGED <<r_exc, sock_closed>>
             ELSE /\ r_pc' = "done"
                  /\ r_exc' = res
                  /\ data_sockets' = <<>>
                  /\ sock_closed' = AllClosed
     ELSE /\ x_result' = res
          /\ data_sockets' = ds
          /\ UNCHANGED <<finished, r_cur, r_pc, r_exc, sock_closed>>

(***************************************************************************)
(* Commander._receive                                                      *)
(***************************************************************************)
\* one turn of _receive: recv_any polls the data sockets; with no frame it
\* clears _recv_event and waits; with a frame, msg.decode(), the JSON
\* decode, call_header and call run up to the handler's first await
ReceivePoll ==
  /\ r_pc = "poll"
  /\ LET p  == PollFrom(data_sockets, 1)
         ds == Without(data_sockets, p.removed)
     IN IF ~p.found
        THEN /\ data_sockets' = ds
             /\ recv_event' = FALSE
             /\ r_pc' = "wait"
             /\ UNCHANGED <<sock_queue, sock_closed, r_cur, r_exc, handle_lock,
                            call_stack, act, x_result, started, finished, faults>>
        ELSE LET g   == GetNowait(sock_queue[p.serial])
                 f   == g.item
                 cur == [serial |-> p.serial, n |-> f.n]
                 e   == Enter(f.ident, "R")
             IN /\ sock_queue' = [sock_queue EXCEPT ![p.serial] = g.rest]
                /\ UNCHANGED recv_event
                /\ IF f.kind # "json"
                   THEN /\ CallEnds("R", "JSONDecodeError", call_stack, handle_lock, ds, cur)
                        /\ UNCHANGED started
                   ELSE IF e.out = "KeyError"
                   THEN /\ CallEnds("R", "KeyError", e.stack, e.lock, ds, cur)
                        /\ UNCHANGED started
                   ELSE /\ call_stack' = e.stack
                        /\ handle_lock' = e.lock
                        /\ act' = [act EXCEPT !["R"] = <<e.a>>]
                        /\ r_pc' = "call"
                        /\ r_cur' = cur
                        /\ started' = IF e.out = "run" THEN LogStart(started, cur)
                                      ELSE started
                        /\ data_sockets' = ds
                        /\ UNCHANGED <<sock_closed, r_exc, x_result, finished, faults>>
  /\ UNCHANGED <<next_serial, arrived, x_count, ra_ret>>
  /\ UNCHANGED <<netVars, updVars, extVars>>

\* _recv_event.wait() returns
ReceiveWake ==
  /\ r_pc = "wait"
  /\ recv_event
  /\ r_pc' = "poll"
  /\ UNCHANGED <<next_serial, data_sockets, sock_queue, sock_closed, arrived,
                 recv_event, r_cur, r_exc, handle_lock, call_stack, act,
                 x_count, x_result, started, finished, faults, ra_ret>>
  /\ UNCHANGED <<netVars, updVars, extVars>>

\* the receive task is cancelled at its await: the finally clauses of
\* _execute pop the call stack, the lock is released, CancelledError is
\* swallowed by _receive and close_all() runs
ReceiveCancel ==
  /\ r_pc # "done"
  /\ CallEnds("R", "CancelledError", PopN(call_stack, Executing(act["R"])),
              Released("R"), data_sockets, r_cur)
  /\ UNCHANGED <<next_serial, sock_queue, arrived, recv_event, x_count,
                 started, ra_ret>>
  /\ UNCHANGED <<netVars, updVars, extVars>>

\* a task other than the receive loop invokes call(ident, body, serial)
ExtCall(ident) ==
  /\ act["X"] = <<>>
  /\ x_count < MaxCalls
  /\ x_count' = x_count + 1
  /\ LET e == Enter(ident, "X")
     IN IF e.out = "KeyError"
        THEN CallEnds("X", "KeyError", e.stack, e.lock, data_sockets, NoCur)
        ELSE /\ call_stack' = e.stack
             /\ handle_lock' = e.lock
             /\ act' = [act EXCEPT !["X"] = <<e.a>>]
             /\ x_result' = None
             /\ UNCHANGED <<data_sockets, sock_closed, r_pc, r_cur, r_exc, finished,
                            faults>>
  /\ UNCHANGED <<next_serial, sock_queue, arrived, recv_event, started, ra_ret>>
  /\ UNCHANGED <<netVars, updVars, extVars>>

(***************************************************************************)
(* The handlers.  "ok" awaits once and returns; "boom" awaits once and     *)
(* raises; "nest" awaits once, awaits call("ok", ...) on its own           *)
(* dispatcher, awaits once more and returns.                               *)
(***************************************************************************)
Top(as) == as[Len(as)]

CanStep(t) ==
  /\ act[t] # <<>>
  /\ \/ Top(act[t]).pc \in {"run", "tail"}
     \/ Top(act[t]).pc = "lock" /\ handle_lock = "free"

\* the activations of t once its innermost call has returned
Returned(as) ==
  IF Len(as) <= 1 THEN <<>>
  ELSE [k \in 1..(Len(as) - 1) |->
          IF k = Len(as) - 1 THEN [as[k] EXCEPT !.pc = "tail"] ELSE as[k]]

\* the activations of t once its innermost handler has awaited call(ident)
Nested(as, a) ==
  [k \in 1..(Len(as) + 1) |->
     IF k = Len(as) + 1 THEN a
     ELSE IF k = Len(as) THEN [as[k] EXCEPT !.pc = "sub"] ELSE as[k]]

\* task t resumes in its innermost activation and runs to its next await
HandlerStep(t) ==
  /\ CanStep(t)
  /\ LET as  == act[t]
         top == Top(as)
     IN CASE top.pc = "lock" ->
               \* handle_lock acquired, _execute entered
               IF top.ident \in Cmds
               THEN /\ handle_lock' = t
                    /\ call_stack' = Append(call_stack, top.ident)
                    /\ act' = [act EXCEPT ![t] =
                                 [as EXCEPT ![Len(as)] = Activation(top.ident, "run", TRUE)]]
                    /\ started' = IF t = "R" /\ Len(as) = 1
                                  THEN LogStart(started, r_cur) ELSE started
                    /\ UNCHANGED <<data_sockets, sock_closed, r_pc, r_cur, r_exc,
                                   x_result, finished, faults>>
               ELSE /\ CallEnds(t, "KeyError", PopN(call_stack, Executing(as)),
                                Released(t), data_sockets, r_cur)
                    /\ UNCHANGED started
          [] top.pc = "run" /\ top.ident = "boom" ->
               \* the exception leaves every _execute of the task
               /\ CallEnds(t, "HandlerError", PopN(call_stack, Executing(as)),
                           Released(t), data_sockets, r_cur)
               /\ UNCHANGED started
          [] top.pc = "run" /\ top.ident = "nest" ->
               LET e == Enter("ok", t)
               IN /\ call_stack' = e.stack
                  /\ handle_lock' = e.lock
                  /\ act' = [act EXCEPT ![t] = Nested(as, e.a)]
                  /\ UNCHANGED <<data_sockets, sock_closed, r_pc, r_cur, r_exc,
                                 x_result, finished, started, faults>>
          [] OTHER ->
               \* the handler returns: _execute pops, `async with` releases
               IF Len(as) = 1
               THEN /\ CallEnds(t, "ok", Pop(call_stack),
                                IF top.locked THEN "free" ELSE handle_lock,
                                data_sockets, r_cur)
                    /\ UNCHANGED started
               ELSE /\ call_stack' = Pop(call_stack)
                    /\ handle_lock' = IF top.locked THEN "free" ELSE handle_lock
                    /\ act' = [act EXCEPT ![t] = Returned(as)]
                    /\ UNCHANGED <<data_sockets, sock_closed, r_pc, r_cur, r_exc,
                                   x_result, finished, started, faults>>
  /\ UNCHANGED <<next_serial, sock_queue, arrived, recv_event, x_count, ra_ret>>
  /\ UNCHANGED <<netVars, updVars, extVars>>

InitCmdVars ==
  /\ next_serial = 1
  /\ data_sockets = <<>>
  /\ sock_queue = [s \in Serials |-> <<>>]
  /\ sock_closed = [s \in Serials |-> FALSE]
  /\ arrived = [s \in Serials |-> 0]
  /\ recv_event = FALSE
  /\ r_pc = "poll"
  /\ r_cur = NoCur
  /\ r_exc = None
  /\ handle_lock = "free"
  /\ call_stack = <<>>
  /\ act = [t \in Tasks |-> <<>>]
  /\ x_count = 0
  /\ x_result = None
  /\ started = [s \in Serials |-> <<>>]
  /\ finished = [s \in Serials |-> {}]
  /\ faults = {}
  /\ ra_ret = NoCur

(***************************************************************************)
(* Releaser and Updater.  One client is connected to one Releaser.  The    *)
(* bytes of a file are known by their digest and their number: a content   *)
(* is [tag |-> digest, size |-> bytes]; two contents of different sizes    *)
(* may share a digest.                                                     *)
(***************************************************************************)
\* download_update() calls made by a task of the client
MaxDownloads == 2

\* __force_update__ commands sent to the Releaser
MaxPush == 1

\* changes made to the files of the release directory
MaxTamper == 1

Content(tag, size) == [tag |-> tag, size |-> size]

\* no file at the path
Missing == [tag |-> "missing", size |-> 0]

\* Releaser.versions: the approved versions
Versions == {"1.0"}

\* the versions clients ask for
AskedVersions == {"1.0", "9.9"}

\* metadata['files'] of version 1.0: one file of a single chunk, one of two
Files ==
  << [path |-> "a", size |-> 1,           checksum |-> "da"],
     [path |-> "b", size |-> MaxSize + 1, checksum |-> "db"] >>

Paths == {Files[k].path : k \in 1..Len(Files)}

\* the file the manifest entry f describes
Intact(f) == Content(f.checksum, f.size)

\* what may be found at its path instead: other bytes of the same size,
\* one more byte with the same digest, other bytes and one more byte
Variants(f) ==
  {Content("dx", f.size), Content(f.checksum, f.size + 1),
   Content("dx", f.size + 1), Missing}

\* calculate_checksum: the digest of the file's bytes
CalculateChecksum(c) == c.tag

\* envelopes and file-mode frames
Cmd(ident, version) == [kind |-> "cmd", ident |-> ident, version |-> version]
Push(ident, version, restart) ==
  [kind |-> "cmd", ident |-> ident, version |-> version, restart |-> restart]
Start(version, files) ==
  [kind |-> "cmd", ident |-> "__download_start__", version |-> version,
   files |-> files]
Failed(error) ==
  [kind |-> "cmd", ident |-> "__download_failed__", version |-> "", error |-> error]
SizeFrame(n) == [kind |-> "str", size |-> n]
ChunkFrame(tag, len) == [kind |-> "chunk", tag |-> tag, len |-> len]

\* a file of the release directory is replaced while no file is being read
Tamper(p, c) ==
  /\ tampered < MaxTamper
  /\ rel_pc # "chunk"
  /\ \E k \in 1..Len(Files) : Files[k].path = p /\ c \in Variants(Files[k])
  /\ rel_disk' = [rel_disk EXCEPT ![p] = c]
  /\ tampered' = tampered + 1
  /\ UNCHANGED <<rel_in, rel_pc, rel_ver, rel_i, rel_off, upd_in,
                 conn_closed, sock_removed, loop_pc, loop_exc, loop_body, loop_files,
                 loop_ver, loop_i, loop_fsize, loop_rsize, loop_tag, stage, saved_args,
                 download_completed, download_status, download_error, d_pc, d_count,
                 d_result, d_msg, d_failed, push_count, a_result, closers, sigterm, timely, integrity,
                 recorded>>
  /\ UNCHANGED <<netVars, cmdVars, extVars>>

\* a peer sends __force_update__ {version, restart} to the Releaser
ForceUpdate(v, restart) ==
  /\ push_count < MaxPush
  /\ ~conn_closed
  /\ push_count' = push_count + 1
  /\ rel_in' = Append(rel_in, Push("__force_update__", v, restart))
  /\ UNCHANGED <<rel_disk, tampered, rel_pc, rel_ver, rel_i, rel_off, upd_in,
                 conn_closed, sock_removed, loop_pc, loop_exc, loop_body, loop_files,
                 loop_ver, loop_i, loop_fsize, loop_rsize, loop_tag, stage, saved_args,
                 download_completed, download_status, download_error, d_pc, d_count,
                 d_result, d_msg, d_failed, a_result, closers, sigterm, timely, integrity,
                 recorded>>
  /\ UNCHANGED <<netVars, cmdVars, extVars>>

\* the Releaser's handler sends frames to the client and goes on at pc; on a
\* closed connection the send raises, the handler's except clause fails to
\* send __download_failed__ as well, and the Releaser's receive loop ends
RelSends(frames, pc) ==
  IF conn_closed
  THEN /\ rel_pc' = "done"
       /\ UNCHANGED <<upd_in, d_failed>>
  ELSE /\ rel_pc' = pc
       /\ upd_in' = upd_in \o frames
       /\ d_failed' = IF frames[1].kind = "cmd" /\ frames[1].ident = "__download_failed__"
                      THEN frames[1].error ELSE d_failed

\* the Releaser's receive loop takes the next envelope and runs its handler
\* to the first frame it sends
RelRecv ==
  /\ rel_pc = "recv"
  /\ rel_in # <<>>
  /\ rel_in' = Tail(rel_in)
  /\ LET m == Head(rel_in)
     IN CASE m.ident = "__download_update__" ->
               \* _cmd_download_update
               IF m.version \notin Versions
               THEN /\ RelSends(<<Failed("version")>>, "recv")
                    /\ UNCHANGED <<rel_ver, rel_i, rel_off, conn_closed>>
               ELSE /\ RelSends(<<Start(m.version, Files)>>, "file")
                    /\ rel_ver' = m.version
                    /\ rel_i' = 1
                    /\ rel_off' = 0
                    /\ UNCHANGED conn_closed
          [] m.ident = "__force_update__" ->
               \* _cmd_force_update
               /\ IF m.version \notin Versions
                  THEN RelSends(<<Cmd("__update_failed__", m.version)>>, "recv")
                  ELSE RelSends(<<Push("__apply_update__", m.version, m.restart)>>, "recv")
               /\ UNCHANGED <<rel_ver, rel_i, rel_off, conn_closed>>
          [] OTHER ->
               \* no handler: KeyError ends _receive, close_all() runs
               /\ rel_pc' = "done"
               /\ conn_closed' = TRUE
               /\ UNCHANGED <<rel_ver, rel_i, rel_off, upd_in, d_failed>>
  /\ UNCHANGED <<rel_disk, tampered, sock_removed, loop_pc, loop_exc, loop_body,
                 loop_files, loop_ver, loop_i, loop_fsize, loop_rsize, loop_tag,
                 stage, saved_args, download_completed, download_status,
                 download_error, d_pc, d_count, d_result, d_msg, push_count, a_result,
                 closers, sigterm, timely, integrity, recorded>>
  /\ UNCHANGED <<netVars, cmdVars, extVars>>

\* where _cmd_download_update goes after file i
AfterFile(i) == IF i < Len(Files) THEN "file" ELSE "complete"

\* _cmd_download_update at the head of its for loop: the file must exist;
\* send_file sends its size
RelFile ==
  /\ rel_pc = "file"
  /\ LET c == rel_disk[Files[rel_i].path]
     IN IF c = Missing
        THEN /\ RelSends(<<Failed("FileNotFoundError")>>, "recv")
             /\ UNCHANGED <<rel_i, rel_off>>
        ELSE IF c.size = 0
        THEN /\ RelSends(<<SizeFrame(0)>>, AfterFile(rel_i))
             /\ rel_i' = IF rel_i < Len(Files) THEN rel_i + 1 ELSE rel_i
             /\ UNCHANGED rel_off
        ELSE /\ RelSends(<<SizeFrame(c.size)>>, "chunk")
             /\ rel_off' = 0
             /\ UNCHANGED rel_i
  /\ UNCHANGED <<rel_disk, tampered, rel_in, rel_ver, conn_closed, sock_removed,
                 loop_pc, loop_exc, loop_body, loop_files, loop_ver, loop_i,
                 loop_fsize, loop_rsize, loop_tag, stage, saved_args,
                 download_completed, download_status, download_error, d_pc,
                 d_count, d_result, d_msg, push_count, a_result, closers, sigterm,
                 timely, integrity, recorded>>
  /\ UNCHANGED <<netVars, cmdVars, extVars>>

\* send_file: the next chunk of at most _max_size bytes
RelChunk ==
  /\ rel_pc = "chunk"
  /\ LET c == rel_disk[Files[rel_i].path]
         n == Min(MaxSize, c.size - rel_off)
         more == rel_off + n < c.size
     IN /\ RelSends(<<ChunkFrame(c.tag, n)>>,
                    IF more THEN "chunk" ELSE AfterFile(rel_i))
        /\ rel_off' = IF more THEN rel_off + n ELSE 0
        /\ rel_i' = IF ~more /\ rel_i < Len(Files) THEN rel_i + 1 ELSE rel_i
  /\ UNCHANGED <<rel_disk, tampered, rel_in, rel_ver, conn_closed, sock_removed,
                 loop_pc, loop_exc, loop_body, loop_files, loop_ver, loop_i,
                 loop_fsize, loop_rsize, loop_tag, stage, saved_args,
                 download_completed, download_status, download_error, d_pc,
                 d_count, d_result, d_msg, push_count, a_result, closers, sigterm,
                 timely, integrity, recorded>>
  /\ UNCHANGED <<netVars, cmdVars, extVars>>

\* _cmd_download_update after the last file
RelComplete ==
  /\ rel_pc = "complete"
  /\ RelSends(<<Cmd("__download_complete__", rel_ver)>>, "recv")
  /\ UNCHANGED <<rel_disk, tampered, rel_in, rel_ver, rel_i, rel_off, conn_closed,
                 sock_removed, loop_pc, loop_exc, loop_body, loop_files, loop_ver,
                 loop_i, loop_fsize, loop_rsize, loop_tag, stage, saved_args,
                 download_completed, download_status, download_error, d_pc,
                 d_count, d_result, d_msg, push_count, a_result, closers, sigterm,
                 timely, integrity, recorded>>
  /\ UNCHANGED <<netVars, cmdVars, extVars>>

(***************************************************************************)
(* Updater: the client's receive loop and its handlers                     *)
(***************************************************************************)
NoBody == [version |-> "", restart |-> FALSE]

\* what a send on the client's socket does: EndPoint.send finds no socket
\* once it was removed, drain() fails on a closed connection
SendOutcome ==
  IF sock_removed THEN "KeyError"
  ELSE IF conn_closed THEN "ConnectionResetError"
  ELSE "ok"

\* send_command by the client
ClientSends(m) ==
  rel_in' = IF SendOutcome = "ok" THEN Append(rel_in, m) ELSE rel_in

\* an exception leaves _receive: its finally clause runs close_all()
LoopDies(exc) ==
  /\ loop_pc' = "done"
  /\ loop_exc' = exc
  /\ conn_closed' = TRUE
  /\ sock_removed' = TRUE

\* _download_completed.set(): a task waiting for the event is released
Waiter(pc) == IF pc = "wait" THEN "woken" ELSE pc

\* the verification _cmd_download_start makes of the file c it received for
\* the manifest entry f: verify_checksum, then the size
FileCheckNone(c, f) == "ok"
FileCheck(c, f) ==
  IF c = Missing THEN "FileNotFoundError"
  ELSE IF CalculateChecksum(c) # f.checksum THEN "checksum"
  ELSE IF c.size # f.size THEN "size"
  ELSE "ok"

\* _cmd_download_start once recv_file has returned, the stage being st
Verified(st) ==
  LET f == loop_files[loop_i]
      r == FileCheck(st[f.path], f)
  IN IF r = "ok"
     THEN /\ stage' = st
          /\ IF loop_i < Len(loop_files)
             THEN loop_pc' = "size" /\ loop_i' = loop_i + 1
             ELSE loop_pc' = "recv" /\ UNCHANGED loop_i
          /\ UNCHANGED <<loop_exc, conn_closed, sock_removed, integrity>>
     ELSE \* os.remove(full_path) if it exists, and the exception is raised again
          /\ stage' = [st EXCEPT ![f.path] = Missing]
          /\ integrity' = IF r \in {"checksum", "size"}
                          THEN integrity \cup {f.path} ELSE integrity
          /\ LoopDies(IF r = "FileNotFoundError" THEN r ELSE "ValueError")
          /\ UNCHANGED loop_i

\* nothing but a timeout can happen: the Releaser has nothing to handle and
\* the client's receive loop has nothing to take
Quiescent ==
  /\ rel_pc = "done" \/ (rel_pc = "recv" /\ rel_in = <<>>)
  /\ loop_pc \in {"done", "apply"} \/ upd_in = <<>>

\* one turn of the client's _receive: recv_any returns a frame, it is decoded
\* and its handler runs to its first wait
LoopRecv ==
  /\ loop_pc = "recv"
  /\ ~sock_removed
  /\ upd_in # <<>>
  /\ upd_in' = Tail(upd_in)
  /\ LET m == Head(upd_in)
     IN IF m.kind # "cmd"
        THEN \* a file-mode frame is not an envelope
             /\ LoopDies("DecodeError")
             /\ UNCHANGED <<rel_in, loop_body, loop_files, loop_ver, loop_i, saved_args,
                            download_completed, download_status, download_error,
                            d_pc, a_result, recorded>>
        ELSE IF m.ident = "__download_start__"
        THEN /\ loop_files' = m.files
             /\ loop_ver' = m.version
             /\ loop_i' = 1
             /\ loop_pc' = IF m.files = <<>> THEN "recv" ELSE "size"
             /\ UNCHANGED <<rel_in, loop_exc, loop_body, conn_closed, sock_removed,
                            saved_args, download_completed, download_status,
                            download_error, d_pc, a_result, recorded>>
        ELSE IF m.ident = "__download_complete__"
        THEN /\ download_status' = m.version
             /\ download_error' = None
             /\ saved_args' = m.version
             /\ download_completed' = TRUE
             /\ d_pc' = Waiter(d_pc)
             /\ recorded' = recorded \cup
                  {[version |-> m.version, files |-> loop_files, stage |-> stage]}
             /\ UNCHANGED <<rel_in, loop_pc, loop_exc, loop_body, loop_files, loop_ver,
                            loop_i, conn_closed, sock_removed, a_result>>
        ELSE IF m.ident = "__download_failed__"
        THEN /\ download_status' = None
             /\ download_error' = m.error
             /\ download_completed' = TRUE
             /\ d_pc' = Waiter(d_pc)
             /\ UNCHANGED <<rel_in, loop_pc, loop_exc, loop_body, loop_files, loop_ver,
                            loop_i, conn_closed, sock_removed, saved_args, a_result,
                            recorded>>
        ELSE IF m.ident = "__apply_update__"
        THEN \* _cmd_apply_update enters download_update: the event and the
             \* slots are cleared, the request is sent, the event awaited
             /\ download_completed' = FALSE
             /\ download_status' = None
             /\ download_error' = None
             /\ ClientSends(Cmd("__download_update__", m.version))
             /\ IF SendOutcome = "ok"
                THEN /\ loop_pc' = "apply"
                     /\ loop_body' = [version |-> m.version, restart |-> m.restart]
                     /\ UNCHANGED a_result
                ELSE \* the except clause: __update_failed__ cannot be sent either
                     /\ a_result' = SendOutcome
                     /\ UNCHANGED <<loop_pc, loop_body>>
             /\ UNCHANGED <<loop_exc, loop_files, loop_ver, loop_i, conn_closed,
                            sock_removed, saved_args, d_pc, recorded>>
        ELSE \* no handler: KeyError
             /\ LoopDies("KeyError")
             /\ UNCHANGED <<rel_in, loop_body, loop_files, loop_ver, loop_i, saved_args,
                            download_completed, download_status, download_error,
                            d_pc, a_result, recorded>>
  /\ UNCHANGED <<rel_disk, tampered, rel_pc, rel_ver, rel_i, rel_off, loop_fsize,
                 loop_rsize, loop_tag, stage, d_count, d_result, d_msg, d_failed, push_count,
                 closers, sigterm, timely, integrity>>
  /\ UNCHANGED <<netVars, cmdVars, extVars>>

\* recv_any finds the socket closed and its queue empty: _remove_socket
LoopRemove ==
  /\ loop_pc = "recv"
  /\ upd_in = <<>>
  /\ conn_closed
  /\ ~sock_removed
  /\ sock_removed' = TRUE
  /\ UNCHANGED <<rel_disk, tampered, rel_in, rel_pc, rel_ver, rel_i, rel_off, upd_in,
                 conn_closed, loop_pc, loop_exc, loop_body, loop_files,
                 loop_ver, loop_i, loop_fsize, loop_rsize, loop_tag, stage, saved_args,
                 download_completed, download_status, download_error, d_pc, d_count,
                 d_result, d_msg, d_failed, push_count, a_result, closers, sigterm, timely, integrity,
                 recorded>>
  /\ UNCHANGED <<netVars, cmdVars, extVars>>

\* recv_file: fsize = int(await self.recv_str()).  A frame that is not a
\* decimal number raises ValueError, which recv_file swallows: it returns
\* without having opened the file
LoopSize ==
  /\ loop_pc = "size"
  /\ upd_in # <<>>
  /\ upd_in' = Tail(upd_in)
  /\ LET m == Head(upd_in)
         f == loop_files[loop_i]
         opened == [stage EXCEPT ![f.path] = Content("empty", 0)]
     IN IF m.kind = "str" /\ m.size > 0
        THEN /\ stage' = opened
             /\ loop_fsize' = m.size
             /\ loop_rsize' = 0
             /\ loop_tag' = "empty"
             /\ loop_pc' = "chunk"
             /\ UNCHANGED <<loop_exc, loop_i, conn_closed, sock_removed, integrity>>
        ELSE /\ Verified(IF m.kind = "str" THEN opened ELSE stage)
             /\ UNCHANGED <<loop_fsize, loop_rsize, loop_tag>>
  /\ UNCHANGED <<rel_disk, tampered, rel_in, rel_pc, rel_ver, rel_i, rel_off,
                 loop_body, loop_files, loop_ver, saved_args,
                 download_completed, download_status, download_error, d_pc, d_count,
                 d_result, d_msg, d_failed, push_count, a_result, closers, sigterm, timely, recorded>>
  /\ UNCHANGED <<netVars, cmdVars, extVars>>

\* the bytes recv() hands to recv_file: any frame counts, an envelope too
FrameBytes(m) ==
  IF m.kind = "chunk" THEN [tag |-> m.tag, len |-> m.len]
  ELSE [tag |-> "text", len |-> 1]

\* recv_file: one more chunk is written; an overrun raises, the last chunk
\* ends recv_file and the file is verified
LoopChunk ==
  /\ loop_pc = "chunk"
  /\ upd_in # <<>>
  /\ upd_in' = Tail(upd_in)
  /\ LET b == FrameBytes(Head(upd_in))
         f == loop_files[loop_i]
         rsize == loop_rsize + b.len
         tag == IF loop_rsize = 0 \/ b.tag = loop_tag THEN b.tag ELSE "mixed"
         st == [stage EXCEPT ![f.path] =
                  Content(IF rsize = loop_fsize THEN tag ELSE "partial", rsize)]
     IN IF rsize > loop_fsize
        THEN /\ stage' = [st EXCEPT ![f.path] = Missing]
             /\ LoopDies("Exception")
             /\ UNCHANGED <<loop_i, loop_rsize, loop_tag, integrity>>
        ELSE IF rsize = loop_fsize
        THEN /\ Verified(st)
             /\ UNCHANGED <<loop_rsize, loop_tag>>
        ELSE /\ stage' = st
             /\ loop_rsize' = rsize
             /\ loop_tag' = tag
             /\ UNCHANGED <<loop_pc, loop_exc, loop_i, conn_closed, sock_removed,
                            integrity>>
  /\ UNCHANGED <<rel_disk, tampered, rel_in, rel_pc, rel_ver, rel_i, rel_off,
                 loop_body, loop_files, loop_ver, loop_fsize, saved_args,
                 download_completed, download_status, download_error, d_pc, d_count,
                 d_result, d_msg, d_failed, push_count, a_result, closers, sigterm, timely, recorded>>
  /\ UNCHANGED <<netVars, cmdVars, extVars>>

\* _cmd_apply_update resumes from download_update: wait_for has returned the
\* event or timed out.  On success restart_service registers the closer that
\* starts the successor and stops the service; any exception is answered
\* with __update_failed__
ApplyResume ==
  /\ loop_pc = "apply"
  /\ LET out == IF ~download_completed THEN "TimeoutError"
                ELSE IF download_error # None \/ download_status = None
                THEN "RuntimeError"
                ELSE "ok"
     IN /\ timely' = (timely /\ (out = "TimeoutError" => Quiescent))
        /\ IF out = "ok"
           THEN /\ a_result' = IF loop_body.restart THEN "restarted" ELSE "held"
                /\ closers' = IF loop_body.restart
                              THEN Append(closers, "start_apply_mode") ELSE closers
                /\ sigterm' = (sigterm \/ loop_body.restart)
                /\ UNCHANGED rel_in
           ELSE /\ a_result' = out
                /\ ClientSends(Cmd("__update_failed__", loop_body.version))
                /\ UNCHANGED <<closers, sigterm>>
  /\ loop_pc' = "recv"
  /\ UNCHANGED <<rel_disk, tampered, rel_pc, rel_ver, rel_i, rel_off, upd_in,
                 conn_closed, sock_removed, loop_exc, loop_body, loop_files,
                 loop_ver, loop_i, loop_fsize, loop_rsize, loop_tag, stage, saved_args,
                 download_completed, download_status, download_error, d_pc, d_count,
                 d_result, d_msg, d_failed, push_count, integrity, recorded>>
  /\ UNCHANGED <<netVars, cmdVars, extVars>>

\* a task of the client calls download_update(version): the event and the
\* slots are cleared, the request is sent, the event awaited
DCall(v) ==
  /\ d_pc \in {"idle", "done"}
  /\ d_count < MaxDownloads
  /\ d_count' = d_count + 1
  /\ download_completed' = FALSE
  /\ download_status' = None
  /\ download_error' = None
  /\ ClientSends(Cmd("__download_update__", v))
  /\ IF SendOutcome = "ok"
     THEN d_pc' = "wait" /\ d_result' = None
     ELSE d_pc' = "done" /\ d_result' = SendOutcome
  /\ d_msg' = None
  /\ d_failed' = None
  /\ UNCHANGED <<rel_disk, tampered, rel_pc, rel_ver, rel_i, rel_off, upd_in,
                 conn_closed, sock_removed, loop_pc, loop_exc, loop_body, loop_files,
                 loop_ver, loop_i, loop_fsize, loop_rsize, loop_tag, stage, saved_args,
                 push_count, a_result, closers, sigterm, timely, integrity,
                 recorded>>
  /\ UNCHANGED <<netVars, cmdVars, extVars>>

\* "if self._download_error:" takes the branch unless the value is None or
\* the empty string
Truthy(x) == x \notin {None, ""}

\* its wait_for returns: released by the event it raises RuntimeError if an
\* error was stored and returns _download_status otherwise; timed out it
\* raises TimeoutError
DResume ==
  /\ d_pc \in {"wait", "woken"}
  /\ d_pc' = "done"
  /\ d_result' = IF d_pc = "wait" THEN "TimeoutError"
                 ELSE IF Truthy(download_error) THEN "RuntimeError"
                 ELSE download_status
  /\ d_msg' = IF d_pc = "woken" /\ Truthy(download_error)
              THEN download_error ELSE None
  /\ UNCHANGED d_failed
  /\ timely' = (timely /\ (d_pc = "wait" => Quiescent))
  /\ UNCHANGED <<rel_disk, tampered, rel_in, rel_pc, rel_ver, rel_i, rel_off, upd_in,
                 conn_closed, sock_removed, loop_pc, loop_exc, loop_body, loop_files,
                 loop_ver, loop_i, loop_fsize, loop_rsize, loop_tag, stage, saved_args,
                 download_completed, download_status, download_error, d_count,
                 push_count, a_result, closers, sigterm, integrity, recorded>>
  /\ UNCHANGED <<netVars, cmdVars, extVars>>

InitUpdVars ==
  /\ rel_disk = [p \in Paths |->
                   Intact(CHOOSE f \in {Files[k] : k \in 1..Len(Files)} : f.path = p)]
  /\ tampered = 0
  /\ rel_in = <<>>
  /\ rel_pc = "recv"
  /\ rel_ver = None
  /\ rel_i = 0
  /\ rel_off = 0
  /\ upd_in = <<>>
  /\ conn_closed = FALSE
  /\ sock_removed = FALSE
  /\ loop_pc = "recv"
  /\ loop_exc = None
  /\ loop_body = NoBody
  /\ loop_files = <<>>
  /\ loop_ver = None
  /\ loop_i = 0
  /\ loop_fsize = 0
  /\ loop_rsize = 0
  /\ loop_tag = "empty"
  /\ stage = [p \in Paths |-> Missing]
  /\ saved_args = None
  /\ download_completed = FALSE
  /\ download_status = None
  /\ download_error = None
  /\ d_pc = "idle"
  /\ d_count = 0
  /\ d_result = None
  /\ d_msg = None
  /\ d_failed = None
  /\ push_count = 0
  /\ a_result = None
  /\ closers = <<>>
  /\ sigterm = FALSE
  /\ timely = TRUE
  /\ integrity = {}
  /\ recorded = {}

\* a task of the client pulls a version
NextUpd ==
  \/ \E k \in 1..Len(Files) : \E c \in Variants(Files[k]) : Tamper(Files[k].path, c)
  \/ RelRecv
  \/ RelFile
  \/ RelChunk
  \/ RelComplete
  \/ LoopRecv
  \/ LoopSize
  \/ LoopChunk
  \/ \E v \in AskedVersions : DCall(v)
  \/ DResume

\* and the Releaser is told to push one
NextPush ==
  \/ NextUpd
  \/ \E v \in AskedVersions : \E restart \in BOOLEAN : ForceUpdate(v, restart)
  \/ LoopRemove
  \/ ApplyResume

(***************************************************************************)
(* Releaser: the release catalog, get_version_list and the handlers of     *)
(* __request_versions__, __request_latest_version__, __download_update__   *)
(***************************************************************************)
\* changes made to the release directory in one run
MaxCatOps == 1

\* envelopes the peer sends in one run
MaxRequests == 2

\* A version string MAJOR.MINOR[.PATCH] is written as the sequence of its
\* numbers: "1.2" is <<1, 2>>, "1.2.0" is <<1, 2, 0>>, "1.10.0" is <<1, 10, 0>>.
\* The version directories a build may create:
CatDirs == {<<1, 2>>, <<1, 2, 0>>, <<1, 10, 0>>}

\* a version directory on disk: "absent"; "building" (created, no status.json
\* yet, files not copied); or the status written in its status.json
Statuses == {"absent", "building", "draft", "approved", "deprecated"}

\* the directory holds a status.json and the files of its manifest
HasMetadata(st) == st \in {"draft", "approved", "deprecated"}

\* the release directory the Releaser is started on
InitCatalog == [v \in CatDirs |-> IF v = <<1, 2>> THEN "approved" ELSE "draft"]

\* metadata['files'] of a version; the build of 1.2.0 kept no file
Manifest(v) == IF v = <<1, 2, 0>> THEN <<>> ELSE Files

\* is_valid_version: one of the two patterns matches
is_valid_version(v) == Len(v) \in {2, 3}

\* parse_version: (major, minor, patch), patch 0 when it is left out
parse_version(v) == IF Len(v) = 2 THEN Append(v, 0) ELSE v

\* comparison of two keys of the sort: none
KeyLeqNone(a, b) == TRUE
\* comparison of two keys of the sort: Python's order on tuples of int
KeyLeq(a, b) ==
  \/ a[1] < b[1]
  \/ a[1] = b[1] /\ a[2] < b[2]
  \/ a[1] = b[1] /\ a[2] = b[2] /\ a[3] <= b[3]

\* list.sort is stable: x goes behind the entries whose key is not greater
RECURSIVE InsertByKey(_, _)
InsertByKey(x, s) ==
  IF s = <<>> THEN <<x>>
  ELSE IF KeyLeq(parse_version(Head(s)), parse_version(x))
       THEN <<Head(s)>> \o InsertByKey(x, Tail(s))
       ELSE <<x>> \o s

RECURSIVE SortByKey(_)
SortByKey(s) ==
  IF s = <<>> THEN <<>>
  ELSE InsertByKey(s[Len(s)], SortByKey(SubSeq(s, 1, Len(s) - 1)))

\* os.listdir: the entries of the release directory, in any order
ListDir(st) ==
  LET present == {v \in CatDirs : st[v] # "absent"}
  IN {o \in [1..Cardinality(present) -> present] :
        \A i, j \in 1..Cardinality(present) : i # j => o[i] # o[j]}

\* get_version_list over the listing o: the directories whose status.json
\* says approved, sorted by parse_version; a ValueError of the sort leaves
\* the list as collected
get_version_list(st, o) ==
  LET approved_versions == SelectSeq(o, LAMBDA v : st[v] = "approved")
  IN IF \A k \in 1..Len(approved_versions) : is_valid_version(approved_versions[k])
     THEN SortByKey(approved_versions)
     ELSE approved_versions

\* null
NoVersion == <<>>

\* get_latest_version: the last entry of self.versions
get_latest_version(vs) == IF vs = <<>> THEN NoVersion ELSE vs[Len(vs)]

InSeq(x, s) == \E k \in 1..Len(s) : s[k] = x

\* envelopes of the peer and replies of the Releaser
Request(ident, version) == [kind |-> "cmd", ident |-> ident, version |-> version]
NoReq == Request("", NoVersion)
Reply(ident, payload) == [kind |-> "cmd", ident |-> ident, payload |-> payload]
CatRequests ==
  {Request("__request_versions__", NoVersion),
   Request("__request_latest_version__", NoVersion)}
  \cup {Request("__download_update__", v) : v \in CatDirs}

\* send_file without the frame of the size
RECURSIVE send_file_chunks(_, _)
send_file_chunks(tag, n) ==
  IF n = 0 THEN <<>>
  ELSE <<ChunkFrame(tag, Min(MaxSize, n))>>
         \o send_file_chunks(tag, n - Min(MaxSize, n))

send_file_unsized(c) == send_file_chunks(c.tag, c.size)
\* send_file: the size of the file as a string, then its bytes in chunks of
\* at most _max_size
send_file(c) == <<SizeFrame(c.size)>> \o send_file_chunks(c.tag, c.size)

\* build() of a version: _prepare_version_dir removes the directory and
\* creates it anew
BuildBegins(v) ==
  /\ cat_ops < MaxCatOps
  /\ cat_status[v] # "building"
  /\ cat_status' = [cat_status EXCEPT ![v] = "building"]
  /\ cat_ops' = cat_ops + 1
  /\ UNCHANGED <<versions, cat_in, cat_reqs, cat_pc, cat_req, cat_at, cat_i,
                 cat_sent, cat_closed>>
  /\ UNCHANGED <<netVars, cmdVars, updVars, svcVars, insVars, hoVars, relVars, serVars, lateVars>>

\* build(): _save_metadata writes status.json with status draft, or the
\* build fails and the directory is removed
BuildEnds(v, ok) ==
  /\ cat_status[v] = "building"
  /\ cat_status' = [cat_status EXCEPT ![v] = IF ok THEN "draft" ELSE "absent"]
  /\ UNCHANGED <<cat_ops, versions, cat_in, cat_reqs, cat_pc, cat_req, cat_at,
                 cat_i, cat_sent, cat_closed>>
  /\ UNCHANGED <<netVars, cmdVars, updVars, svcVars, insVars, hoVars, relVars, serVars, lateVars>>

\* release(version, approve=True)
Approve(v) ==
  /\ cat_ops < MaxCatOps
  /\ HasMetadata(cat_status[v])
  /\ cat_status[v] # "approved"
  /\ cat_status' = [cat_status EXCEPT ![v] = "approved"]
  /\ cat_ops' = cat_ops + 1
  /\ UNCHANGED <<versions, cat_in, cat_reqs, cat_pc, cat_req, cat_at, cat_i,
                 cat_sent, cat_closed>>
  /\ UNCHANGED <<netVars, cmdVars, updVars, svcVars, insVars, hoVars, relVars, serVars, lateVars>>

\* rollback(from_version, to_version): from_version becomes deprecated
Rollback(v) ==
  /\ cat_ops < MaxCatOps
  /\ HasMetadata(cat_status[v])
  /\ cat_status[v] # "deprecated"
  /\ cat_status' = [cat_status EXCEPT ![v] = "deprecated"]
  /\ cat_ops' = cat_ops + 1
  /\ UNCHANGED <<versions, cat_in, cat_reqs, cat_pc, cat_req, cat_at, cat_i,
                 cat_sent, cat_closed>>
  /\ UNCHANGED <<netVars, cmdVars, updVars, svcVars, insVars, hoVars, relVars, serVars, lateVars>>

\* the peer sends an envelope, the ones before it having been dispatched
CatRequest(m) ==
  /\ cat_reqs < MaxRequests
  /\ ~cat_closed
  /\ cat_in = <<>>
  /\ cat_reqs' = cat_reqs + 1
  /\ cat_in' = Append(cat_in, m)
  /\ UNCHANGED <<cat_status, cat_ops, versions, cat_pc, cat_req, cat_at, cat_i,
                 cat_sent, cat_closed>>
  /\ UNCHANGED <<netVars, cmdVars, updVars, svcVars, insVars, hoVars, relVars, serVars, lateVars>>

\* the peer closes the connection
CatClose ==
  /\ ~cat_closed
  /\ cat_reqs > 0
  /\ cat_closed' = TRUE
  /\ UNCHANGED <<cat_status, cat_ops, versions, cat_in, cat_reqs, cat_pc, cat_req,
                 cat_at, cat_i, cat_sent>>
  /\ UNCHANGED <<netVars, cmdVars, updVars, svcVars, insVars, hoVars, relVars, serVars, lateVars>>

\* a handler sends frames and goes on at pc; on a closed connection the send
\* raises, the except clause of _cmd_download_update fails to send
\* __download_failed__ as well, and the receive loop ends
CatSends(sent, frames, pc) ==
  IF cat_closed
  THEN /\ cat_pc' = "done"
       /\ cat_sent' = sent
  ELSE /\ cat_pc' = pc
       /\ cat_sent' = sent \o frames

\* the receive loop takes the next envelope and runs its handler to the
\* first await after its reply
CatRecv ==
  /\ cat_pc = "recv"
  /\ cat_in # <<>>
  /\ cat_in' = Tail(cat_in)
  /\ cat_req' = Head(cat_in)
  /\ cat_at' = cat_status
  /\ LET m == Head(cat_in)
     IN CASE m.ident = "__request_versions__" ->
               \* _cmd_request_versions
               \E o \in ListDir(cat_status) :
                 /\ versions' = get_version_list(cat_status, o)
                 /\ CatSends(<<>>, <<Reply("__receive_versions__", versions')>>, "recv")
                 /\ UNCHANGED cat_i
          [] m.ident = "__request_latest_version__" ->
               \* _cmd_request_latest_version
               /\ CatSends(<<>>, <<Reply("__receive_latest_version__",
                                         get_latest_version(versions))>>, "recv")
               /\ UNCHANGED <<versions, cat_i>>
          [] OTHER ->
               \* _cmd_download_update
               /\ IF ~InSeq(m.version, versions)
                  THEN /\ CatSends(<<>>, <<Failed("version")>>, "recv")
                       /\ UNCHANGED cat_i
                  ELSE IF ~HasMetadata(cat_status[m.version])
                  THEN /\ CatSends(<<>>, <<Failed("FileNotFoundError")>>, "recv")
                       /\ UNCHANGED cat_i
                  ELSE IF Manifest(m.version) = <<>>
                  THEN /\ CatSends(<<>>, <<Failed("ValueError")>>, "recv")
                       /\ UNCHANGED cat_i
                  ELSE /\ CatSends(<<>>, <<Start(m.version, Manifest(m.version))>>, "file")
                       /\ cat_i' = 1
               /\ UNCHANGED versions
  /\ UNCHANGED <<cat_status, cat_ops, cat_reqs, cat_closed>>
  /\ UNCHANGED <<netVars, cmdVars, updVars, svcVars, insVars, hoVars, relVars, serVars, lateVars>>

\* _cmd_download_update at the head of its for loop: the file must exist,
\* send_file streams it
CatFile ==
  /\ cat_pc = "file"
  /\ LET files == Manifest(cat_req.version)
     IN IF ~HasMetadata(cat_status[cat_req.version])
        THEN /\ CatSends(cat_sent, <<Failed("FileNotFoundError")>>, "recv")
             /\ UNCHANGED cat_i
        ELSE /\ CatSends(cat_sent, send_file(Intact(files[cat_i])),
                         IF cat_i < Len(files) THEN "file" ELSE "complete")
             /\ cat_i' = IF cat_i < Len(files) THEN cat_i + 1 ELSE cat_i
  /\ UNCHANGED <<cat_status, cat_ops, versions, cat_in, cat_reqs, cat_req, cat_at,
                 cat_closed>>
  /\ UNCHANGED <<netVars, cmdVars, updVars, svcVars, insVars, hoVars, relVars, serVars, lateVars>>

\* _cmd_download_update after the last file
CatComplete ==
  /\ cat_pc = "complete"
  /\ CatSends(cat_sent, <<Cmd("__download_complete__", cat_req.version)>>, "recv")
  /\ UNCHANGED <<cat_status, cat_ops, versions, cat_in, cat_reqs, cat_req, cat_at,
                 cat_i, cat_closed>>
  /\ UNCHANGED <<netVars, cmdVars, updVars, svcVars, insVars, hoVars, relVars, serVars, lateVars>>

\* Releaser.__init__: self.versions = self.get_version_list()
InitCatVars ==
  /\ cat_status = InitCatalog
  /\ cat_ops = 0
  /\ versions = << <<1, 2>> >>
  /\ cat_in = <<>>
  /\ cat_reqs = 0
  /\ cat_pc = "recv"
  /\ cat_req = NoReq
  /\ cat_at = InitCatalog
  /\ cat_i = 0
  /\ cat_sent = <<>>
  /\ cat_closed = FALSE

NextCat ==
  \/ \E v \in CatDirs : BuildBegins(v)
  \/ \E v \in CatDirs : \E ok \in BOOLEAN : BuildEnds(v, ok)
  \/ \E v \in CatDirs : Approve(v)
  \/ \E v \in CatDirs : Rollback(v)
  \/ \E m \in CatRequests : CatRequest(m)
  \/ CatClose
  \/ CatRecv
  \/ CatFile
  \/ CatComplete

(***************************************************************************)
(* Service: _run, the main service task _service, tasks and closers        *)
(***************************************************************************)
\* invocations of run() in one run
MaxRuns == 2

\* closers registered in one run
MaxClosers == 2

\* the event loop is running
LoopRuns == run_pc \in {"gather", "drain"}

\* how an awaited init(), run() or destroy() ends: CancelledError is thrown
\* into it if the task was cancelled, otherwise it returns or raises
Outcomes(cancelled) ==
  IF cancelled THEN {"cancelled"} ELSE {"returned", "raised"}

\* the tasks append_task may add besides the main task: the server task of
\* Socket.bind and the handler task of Socket.start
Workers == {"server", "handler"}

\* the tasks of Service._tasks
Registered == {"ServiceWork"} \cup {w \in Workers : worker[w] # "none"}

TaskDone(t) == IF t = "ServiceWork" THEN svc_pc = "done" ELSE worker[t] = "done"

\* gather(..., return_exceptions=True) returns when each of its tasks is done
Drained(ts) == \A t \in ts : TaskDone(t)

\* _set_status
SetStatus(st) ==
  /\ status' = st
  /\ status_log' = Append(status_log, st)

\* _service enters its finally clause: Stopping is set and destroy() awaited
EnterDestroy ==
  /\ SetStatus("Stopping")
  /\ svc_pc' = "destroy"
  /\ destroy_calls' = destroy_calls + 1

\* _run: the signal handler, the loop, the main task and the first
\* run_until_complete; the task runs to its first await
SvcStart ==
  /\ run_pc = "new"
  /\ run_pc' = "gather"
  /\ gathered' = Registered
  /\ svc_pc' = "init"
  /\ SetStatus("Initting")
  /\ UNCHANGED <<svc_cancel, svc_sigterm, init_end, run_calls, destroy_calls,
                 destroy_end, worker, loop_closed, svc_closers, closer_i,
                 closer_calls>>
  /\ UNCHANGED <<netVars, cmdVars, updVars, catVars, insVars, hoVars, relVars, serVars, lateVars>>

\* the except clauses around init() call stop() for no outcome
InitFailedNever(o) == FALSE
\* the except clauses around init() call stop() for CancelledError and for
\* Exception
InitFailed(o) == o # "returned"

\* await self.init() ends
InitEnds(o) ==
  /\ LoopRuns
  /\ svc_pc = "init"
  /\ o \in Outcomes(svc_cancel)
  /\ init_end' = o
  /\ svc_cancel' = FALSE
  /\ svc_sigterm' = (svc_sigterm \/ InitFailed(o))
  /\ IF ~svc_sigterm'
     THEN /\ SetStatus("Running")
          /\ svc_pc' = "run"
          /\ run_calls' = run_calls + 1
          /\ UNCHANGED destroy_calls
     ELSE /\ EnterDestroy
          /\ UNCHANGED run_calls
  /\ UNCHANGED <<run_pc, destroy_end, worker, gathered, loop_closed, svc_closers,
                 closer_i, closer_calls>>
  /\ UNCHANGED <<netVars, cmdVars, updVars, catVars, insVars, hoVars, relVars, serVars, lateVars>>

\* await self.run() ends
RunEnds(o) ==
  /\ LoopRuns
  /\ svc_pc = "run"
  /\ o \in Outcomes(svc_cancel)
  /\ svc_cancel' = FALSE
  /\ IF o = "returned" /\ ~svc_sigterm
     THEN /\ run_calls < MaxRuns
          /\ run_calls' = run_calls + 1
          /\ UNCHANGED <<status, status_log, svc_pc, destroy_calls>>
     ELSE /\ EnterDestroy
          /\ UNCHANGED run_calls
  /\ UNCHANGED <<run_pc, svc_sigterm, init_end, destroy_end, worker, gathered,
                 loop_closed, svc_closers, closer_i, closer_calls>>
  /\ UNCHANGED <<netVars, cmdVars, updVars, catVars, insVars, hoVars, relVars, serVars, lateVars>>

\* await self.destroy() ends: an Exception is logged and Stopped is set;
\* CancelledError is no Exception and leaves the finally clause
DestroyEnds(o) ==
  /\ LoopRuns
  /\ svc_pc = "destroy"
  /\ o \in Outcomes(svc_cancel)
  /\ svc_cancel' = FALSE
  /\ destroy_end' = o
  /\ svc_pc' = "done"
  /\ IF o = "cancelled"
     THEN UNCHANGED <<status, status_log>>
     ELSE SetStatus("Stopped")
  /\ UNCHANGED <<run_pc, svc_sigterm, init_end, run_calls, destroy_calls, worker,
                 gathered, loop_closed, svc_closers, closer_i, closer_calls>>
  /\ UNCHANGED <<netVars, cmdVars, updVars, catVars, insVars, hoVars, relVars, serVars, lateVars>>

\* stop(): SIGTERM, or a task of the service
Stop ==
  /\ LoopRuns
  /\ ~svc_sigterm
  /\ svc_sigterm' = TRUE
  /\ UNCHANGED <<run_pc, status, status_log, svc_pc, svc_cancel, init_end, run_calls,
                 destroy_calls, destroy_end, worker, gathered, loop_closed,
                 svc_closers, closer_i, closer_calls>>
  /\ UNCHANGED <<netVars, cmdVars, updVars, catVars, insVars, hoVars, relVars, serVars, lateVars>>

\* append_closer, called by a task or a callback of the loop; restart (as in
\* restart_service) calls stop() after it
AppendCloser(raises, restart) ==
  /\ LoopRuns
  /\ Len(svc_closers) < MaxClosers
  /\ svc_closers' = Append(svc_closers,
                           [id |-> Len(svc_closers) + 1, raises |-> raises,
                            spawns |-> restart])
  /\ svc_sigterm' = (svc_sigterm \/ restart)
  /\ UNCHANGED <<run_pc, status, status_log, svc_pc, svc_cancel, init_end, run_calls,
                 destroy_calls, destroy_end, worker, gathered, loop_closed, closer_i,
                 closer_calls>>
  /\ UNCHANGED <<netVars, cmdVars, updVars, catVars, insVars, hoVars, relVars, serVars, lateVars>>

\* append_task, called by a task of the service or by a callback of the loop
\* that one of them set up (Socket.bind; Socket.start for an accepted
\* connection)
AppendTask(w) ==
  /\ LoopRuns
  /\ \E t \in Registered : ~TaskDone(t)
  /\ worker[w] = "none"
  /\ worker' = [worker EXCEPT ![w] = "running"]
  /\ UNCHANGED <<run_pc, status, status_log, svc_pc, svc_cancel, svc_sigterm,
                 init_end, run_calls, destroy_calls, destroy_end, gathered,
                 loop_closed, svc_closers, closer_i, closer_calls>>
  /\ UNCHANGED <<netVars, cmdVars, updVars, catVars, insVars, hoVars, relVars, serVars, lateVars>>

\* that task returns, raises or is cancelled
WorkerEnds(w) ==
  /\ LoopRuns
  /\ worker[w] \in {"running", "cancelling"}
  /\ worker' = [worker EXCEPT ![w] = "done"]
  /\ UNCHANGED <<run_pc, status, status_log, svc_pc, svc_cancel, svc_sigterm,
                 init_end, run_calls, destroy_calls, destroy_end, gathered,
                 loop_closed, svc_closers, closer_i, closer_calls>>
  /\ UNCHANGED <<netVars, cmdVars, updVars, catVars, insVars, hoVars, relVars, serVars, lateVars>>

\* _run's finally clause: every task of _tasks is cancelled and a second
\* gather over _tasks awaited
CancelAll ==
  /\ run_pc' = "drain"
  /\ svc_cancel' = (svc_pc # "done")
  /\ worker' = [w \in Workers |->
                  IF worker[w] = "running" THEN "cancelling" ELSE worker[w]]
  /\ gathered' = Registered

\* the first gather returns
GatherEnds ==
  /\ run_pc = "gather"
  /\ Drained(gathered)
  /\ CancelAll
  /\ UNCHANGED <<status, status_log, svc_pc, svc_sigterm, init_end, run_calls,
                 destroy_calls, destroy_end, loop_closed, svc_closers, closer_i,
                 closer_calls>>
  /\ UNCHANGED <<netVars, cmdVars, updVars, catVars, insVars, hoVars, relVars, serVars, lateVars>>

\* KeyboardInterrupt in run_until_complete: caught around the first, it
\* leaves _run from the second
KeyboardInterrupt ==
  /\ LoopRuns
  /\ IF run_pc = "gather"
     THEN CancelAll
     ELSE /\ run_pc' = "interrupted"
          /\ UNCHANGED <<svc_cancel, worker, gathered>>
  /\ UNCHANGED <<status, status_log, svc_pc, svc_sigterm, init_end, run_calls,
                 destroy_calls, destroy_end, loop_closed, svc_closers, closer_i,
                 closer_calls>>
  /\ UNCHANGED <<netVars, cmdVars, updVars, catVars, insVars, hoVars, relVars, serVars, lateVars>>

\* the second gather returns and the loop is closed
DrainEnds ==
  /\ run_pc = "drain"
  /\ Drained(gathered)
  /\ loop_closed' = TRUE
  /\ run_pc' = "closers"
  /\ closer_i' = 1
  /\ UNCHANGED <<status, status_log, svc_pc, svc_cancel, svc_sigterm, init_end,
                 run_calls, destroy_calls, destroy_end, worker, gathered,
                 svc_closers, closer_calls>>
  /\ UNCHANGED <<netVars, cmdVars, updVars, catVars, insVars, hoVars, relVars, serVars, lateVars>>

\* one turn of "for closer, args in self._closers", inside one try: the
\* exception of a closer is logged and ends the loop
CloserStep ==
  /\ run_pc = "closers"
  /\ IF closer_i > Len(svc_closers)
     THEN /\ run_pc' = "end"
          /\ UNCHANGED <<closer_i, closer_calls>>
     ELSE /\ closer_calls' = Append(closer_calls, svc_closers[closer_i].id)
          /\ closer_i' = closer_i + 1
          /\ run_pc' = IF svc_closers[closer_i].raises THEN "end" ELSE "closers"
  /\ UNCHANGED <<status, status_log, svc_pc, svc_cancel, svc_sigterm, init_end,
                 run_calls, destroy_calls, destroy_end, worker, gathered, loop_closed,
                 svc_closers>>
  /\ UNCHANGED <<netVars, cmdVars, updVars, catVars, insVars, hoVars, relVars, serVars, lateVars>>

\* Service.__init__
InitSvcVars ==
  /\ run_pc = "new"
  /\ status = None
  /\ status_log = <<>>
  /\ svc_pc = "new"
  /\ svc_cancel = FALSE
  /\ svc_sigterm = FALSE
  /\ init_end = None
  /\ run_calls = 0
  /\ destroy_calls = 0
  /\ destroy_end = None
  /\ worker = [w \in Workers |-> "none"]
  /\ gathered = {}
  /\ loop_closed = FALSE
  /\ svc_closers = <<>>
  /\ closer_i = 0
  /\ closer_calls = <<>>

NextSvc ==
  \/ SvcStart
  \/ \E o \in {"returned", "raised", "cancelled"} : InitEnds(o)
  \/ \E o \in {"returned", "raised", "cancelled"} : RunEnds(o)
  \/ \E o \in {"returned", "raised", "cancelled"} : DestroyEnds(o)
  \/ Stop
  \/ \E raises, restart \in BOOLEAN : AppendCloser(raises, restart)
  \/ \E w \in Workers : AppendTask(w)
  \/ \E w \in Workers : WorkerEnds(w)
  \/ GatherEnds
  \/ KeyboardInterrupt
  \/ DrainEnds
  \/ CloserStep

(***************************************************************************)
(* Updater.install_update                                                  *)
(***************************************************************************)
\* calls of install_update in one run
MaxInstalls == 2

\* the versions the Updater hears of
InsVersions == {"1.0.0", "1.1.0"}

\* Service.version when the config file has no PSVC\version
DefaultVersion == "0.0.0"

\* "version = self._download_status or self._latest_version" for a call
\* without a version
ResolveVersion(arg) ==
  IF arg # None THEN arg
  ELSE IF Truthy(ins_status) THEN ins_status
  ELSE ins_latest

\* _update_version_config without set_config
update_version_config_unsaved(v, saved) ==
  /\ cfg_mem' = cfg_mem
  /\ cfg_file' = cfg_file
  /\ svc_version' = v
  /\ ins_result' = "ok"
\* _update_version_config: set_config stores the value and rewrites the
\* config file, then Service.version is assigned; if the file cannot be
\* written it is left truncated and the exception leaves set_config
update_version_config(v, saved) ==
  /\ cfg_mem' = v
  /\ cfg_file' = IF saved THEN v ELSE "truncated"
  /\ svc_version' = IF saved THEN v ELSE svc_version
  /\ ins_result' = IF saved THEN "ok" ELSE "RuntimeError"

\* _cmd_download_complete: a version was staged
DownloadDone(v) ==
  /\ v \notin staged
  /\ staged' = staged \cup {v}
  /\ ins_status' = v
  /\ UNCHANGED <<ins_latest, cfg_mem, cfg_file, svc_version, deployed, ins_count,
                 ins_target, ins_result>>
  /\ UNCHANGED <<netVars, cmdVars, updVars, catVars, svcVars, hoVars, relVars, serVars, lateVars>>

\* _cmd_receive_latest_version: the Releaser named its latest version
LatestReceived(v) ==
  /\ ins_latest # v
  /\ ins_latest' = v
  /\ UNCHANGED <<staged, ins_status, cfg_mem, cfg_file, svc_version, deployed,
                 ins_count, ins_target, ins_result>>
  /\ UNCHANGED <<netVars, cmdVars, updVars, catVars, svcVars, hoVars, relVars, serVars, lateVars>>

\* install_update(arg): io tells which of its file operations fails
InstallUpdate(arg, io) ==
  /\ ins_count < MaxInstalls
  /\ ins_count' = ins_count + 1
  /\ LET version == ResolveVersion(arg)
     IN /\ ins_target' = version
        /\ IF version = None
           THEN /\ ins_result' = "ValueError"
                /\ UNCHANGED <<cfg_mem, cfg_file, svc_version, deployed>>
           ELSE IF version \notin staged
           THEN \* _deploy_files: FileNotFoundError
                /\ ins_result' = "RuntimeError"
                /\ UNCHANGED <<cfg_mem, cfg_file, svc_version, deployed>>
           ELSE IF io = "copy fails"
           THEN /\ ins_result' = "RuntimeError"
                /\ deployed' = "partial"
                /\ UNCHANGED <<cfg_mem, cfg_file, svc_version>>
           ELSE /\ deployed' = version
                /\ update_version_config(version, io = "ok")
  /\ UNCHANGED <<staged, ins_status, ins_latest>>
  /\ UNCHANGED <<netVars, cmdVars, updVars, catVars, svcVars, hoVars, relVars, serVars, lateVars>>

\* Updater.__init__ / Service.__init__
InitInsVars ==
  /\ staged = {}
  /\ ins_status = None
  /\ ins_latest = None
  /\ cfg_mem = DefaultVersion
  /\ cfg_file = DefaultVersion
  /\ svc_version = DefaultVersion
  /\ deployed = None
  /\ ins_count = 0
  /\ ins_target = None
  /\ ins_result = None

NextIns ==
  \/ \E v \in InsVersions : DownloadDone(v)
  \/ \E v \in InsVersions : LatestReceived(v)
  \/ \E arg \in InsVersions \cup {None} :
       \E io \in {"ok", "copy fails", "save fails"} : InstallUpdate(arg, io)

(***************************************************************************)
(* The self-replacement handoff: Updater.download_and_install,             *)
(* Updater._cmd_apply_update, AutoUpdateMixin._check_and_update,           *)
(* Updater.restart_service, Service._parse_args and Service.apply          *)
(***************************************************************************)
\* apply runs that spawn a successor in one run of the model
MaxHandoffs == 2

\* downloads in one run of the model
MaxStages == 3

\* the version installed at first and the versions a Releaser serves
FirstVersion == "0.9.0"
HoVersions == {"1.0.0", "1.1.0"}

\* the order of compare_versions on these
VerRank(v) == CASE v = "0.9.0" -> 0 [] v = "1.0.0" -> 1 [] v = "1.1.0" -> 2

\* sys.executable
Executable == "exe"

\* the files of a bundle and the names they may take in the install root
RootNames == {"app", "app.new", "saved_args.json", "saved_args.json.new"}

\* command lines that start the service in run mode
RunArgvs ==
  { <<Executable>>,
    <<Executable, "run">>,
    <<Executable, "run", "-l", "DEBUG">>,
    <<Executable, "run", "-c", "prod.conf">>,
    <<Executable, "run", "--config_file", "prod.conf">>,
    <<Executable, "run", "--config_file", "prod.conf", "-l", "DEBUG">> }

\* option/value pairs: every option of opts is followed by a value
RECURSIVE OptPairs(_, _)
OptPairs(a, opts) ==
  IF a = <<>> THEN TRUE
  ELSE /\ Len(a) >= 2
       /\ a[1] \in opts
       /\ a[2] \notin opts
       /\ OptPairs(Tail(Tail(a)), opts)

HasToken(a, ts) == \E k \in 1..Len(a) : a[k] \in ts

\* _parse_args: the mode argparse selects for a command line, or "error"
\* when it prints its usage and exits with status 2
parse_args(argv) ==
  LET a == Tail(argv)
  IN IF a = <<>> THEN "run"
     ELSE IF a[1] = "run"
     THEN IF OptPairs(Tail(a), {"-l", "--log_level", "-c", "--config_file"})
          THEN "run" ELSE "error"
     ELSE IF a[1] = "apply"
     THEN IF /\ OptPairs(Tail(a), {"--root_file", "--config_file"})
             /\ HasToken(Tail(a), {"--root_file"})
          THEN "apply" ELSE "error"
     ELSE "error"

\* start_run_mode's loop over original_argv[1:]
RECURSIVE run_args(_, _)
run_args(a, skip_next) ==
  IF a = <<>> THEN <<>>
  ELSE IF skip_next THEN run_args(Tail(a), FALSE)
  ELSE IF a[1] \in {"apply", "build", "release"} THEN run_args(Tail(a), FALSE)
  ELSE IF a[1] \in {"--root_file", "--config_file", "--version_dir"}
  THEN run_args(Tail(a), TRUE)
  ELSE <<a[1]>> \o run_args(Tail(a), FALSE)

\* start_run_mode: the command line of the process apply spawns
start_run_mode(executable, original_argv) ==
  <<executable>> \o run_args(Tail(original_argv), FALSE)

\* start_apply_mode: the command line of the process the closer spawns
start_apply_mode(executable) == <<executable, "apply">>

\* no saved_args.json
NoArgs == [argv |-> <<>>, version |-> None, timestamp |-> 0]

\* the stage directories that hold a saved_args.json
WithArgs == {s \in HoVersions : stage_args[s].timestamp > 0}

\* the most recent of them
Newest(ss) == CHOOSE s \in ss : \A t \in ss : stage_args[t].timestamp <= stage_args[s].timestamp

\* _deploy_files: every file os.walk finds in the stage is copied to the
\* install directory, with the suffix .new on Windows
deploy_files(v) ==
  [n \in RootNames |->
     IF platform = "win32"
     THEN (IF n = "app.new" THEN v
           ELSE IF n = "saved_args.json.new" /\ v \in WithArgs THEN v
           ELSE root[n])
     ELSE (IF n = "app" THEN v
           ELSE IF n = "saved_args.json" /\ v \in WithArgs THEN v
           ELSE root[n])]

\* apply's copy: every file of the stage but saved_args.json
apply_copy(s) == [root EXCEPT !["app"] = s]

HoFrame == UNCHANGED <<netVars, cmdVars, updVars, catVars, svcVars, insVars, relVars, serVars, lateVars>>

\* the service is launched by its operator
Launch(argv, p) ==
  /\ ho_pc = "off"
  /\ ho_pc' = "new"
  /\ sys_argv' = argv
  /\ platform' = p
  /\ UNCHANGED <<run_version, ho_path, ho_target, stage_args, stage_seq, root,
                 root_cfg, ap_pc, ap_argv, ap_by, ap_saved, ap_newest, applied,
                 ho_for, handoffs>>
  /\ HoFrame

\* Service.__init__ and on(): the arguments are parsed, the version is read
\* from the config file and the mode entered
ProcessStarts ==
  /\ ho_pc = "new"
  /\ ho_pc' = IF parse_args(sys_argv) = "run" THEN "run" ELSE "usage error"
  /\ run_version' = IF parse_args(sys_argv) = "run" THEN root_cfg ELSE run_version
  /\ UNCHANGED <<platform, sys_argv, ho_path, ho_target, stage_args, stage_seq, root,
                 root_cfg, ap_pc, ap_argv, ap_by, ap_saved, ap_newest, applied,
                 ho_for, handoffs>>
  /\ HoFrame

\* a download begins: download_and_install and _check_and_update after
\* check_update() found the Releaser's latest version v greater than the
\* service's, _cmd_apply_update for the version pushed, or a call of
\* download_update(v)
StartPath(p, v) ==
  /\ ho_pc = "run"
  /\ stage_seq < MaxStages
  /\ p \in {"install", "auto"} => VerRank(v) > VerRank(run_version)
  /\ ho_pc' = "download"
  /\ ho_path' = p
  /\ ho_target' = v
  /\ UNCHANGED <<platform, sys_argv, run_version, stage_args, stage_seq, root,
                 root_cfg, ap_pc, ap_argv, ap_by, ap_saved, ap_newest, applied,
                 ho_for, handoffs>>
  /\ HoFrame

\* download_update ends. _cmd_apply_update awaits it inside the receive
\* loop, which cannot dispatch the Releaser's envelopes meanwhile: there it
\* ends with TimeoutError. Elsewhere it either fails or the files are in the
\* stage and _cmd_download_complete has written saved_args.json;
\* _check_and_update goes on to restart_service
DownloadEnds(ok) ==
  /\ ho_pc = "download"
  /\ IF ho_path = "push" \/ ~ok
     THEN /\ ho_pc' = "run"
          /\ UNCHANGED <<stage_args, stage_seq, applied>>
     ELSE /\ stage_args' = [stage_args EXCEPT ![ho_target] =
                              [argv |-> sys_argv, version |-> ho_target,
                               timestamp |-> stage_seq + 1]]
          /\ stage_seq' = stage_seq + 1
          /\ applied' = applied \ {ho_target}
          /\ ho_pc' = CASE ho_path = "install" -> "install"
                        [] ho_path = "auto" -> "stopping"
                        [] OTHER -> "run"
  /\ UNCHANGED <<platform, sys_argv, run_version, ho_path, ho_target, root,
                 root_cfg, ap_pc, ap_argv, ap_by, ap_saved, ap_newest, ho_for,
                 handoffs>>
  /\ HoFrame

\* download_and_install: install_update (the files are deployed, the version
\* is written to the config) and, with restart, restart_service; a failed
\* copy leaves install_update with RuntimeError
InstallEnds(io, restart) ==
  /\ ho_pc = "install"
  /\ IF io = "ok"
     THEN /\ root' = deploy_files(ho_target)
          /\ root_cfg' = ho_target
          /\ run_version' = ho_target
          /\ ho_pc' = IF restart THEN "stopping" ELSE "run"
     ELSE /\ ho_pc' = "run"
          /\ UNCHANGED <<root, root_cfg, run_version>>
  /\ UNCHANGED <<platform, sys_argv, ho_path, ho_target, stage_args, stage_seq,
                 ap_pc, ap_argv, ap_by, ap_saved, ap_newest, applied, ho_for,
                 handoffs>>
  /\ HoFrame

\* the service has stopped and _run invokes the closer restart_service
\* registered: start_apply_mode
CloserFires ==
  /\ ho_pc = "stopping"
  /\ ho_pc' = "exited"
  /\ ap_pc' = "launched"
  /\ ap_argv' = start_apply_mode(Executable)
  /\ ap_by' = "closer"
  /\ UNCHANGED <<platform, sys_argv, run_version, ho_path, ho_target, stage_args,
                 stage_seq, root, root_cfg, ap_saved, ap_newest, applied, ho_for,
                 handoffs>>
  /\ HoFrame

\* the operator starts the executable in apply mode with the option its
\* parser requires
OperatorApply ==
  /\ ho_pc = "exited"
  /\ ap_pc = "usage error"
  /\ ap_pc' = "launched"
  /\ ap_argv' = <<Executable, "apply", "--root_file", "main.py">>
  /\ ap_by' = "operator"
  /\ UNCHANGED <<ho_pc, platform, sys_argv, run_version, ho_path, ho_target,
                 stage_args, stage_seq, root, root_cfg, ap_saved, ap_newest,
                 applied, ho_for, handoffs>>
  /\ HoFrame

\* Service.__init__ of the process in apply mode: _parse_args
ApplyStarts ==
  /\ ap_pc = "launched"
  /\ ap_pc' = IF parse_args(ap_argv) = "apply" THEN "apply" ELSE "usage error"
  /\ UNCHANGED <<ho_pc, platform, sys_argv, run_version, ho_path, ho_target,
                 stage_args, stage_seq, root, root_cfg, ap_argv, ap_by, ap_saved,
                 ap_newest, applied, ho_for, handoffs>>
  /\ HoFrame

\* Service.apply: the first entry of os.listdir (any order) that holds a
\* saved_args.json is the stage; its files are copied to the install root,
\* the process of start_run_mode is spawned and apply exits
Apply ==
  /\ ap_pc = "apply"
  /\ handoffs < MaxHandoffs
  /\ IF WithArgs = {}
     THEN /\ ap_pc' = "FileNotFoundError"
          /\ UNCHANGED <<ho_pc, sys_argv, root, ap_saved, ap_newest, applied,
                         ho_for, handoffs>>
     ELSE \E s \in WithArgs :
            /\ ap_saved' = stage_args[s]
            /\ ap_newest' = stage_args[Newest(WithArgs)]
            /\ root' = apply_copy(s)
            /\ applied' = applied \cup {s}
            /\ sys_argv' = start_run_mode(Executable, stage_args[s].argv)
            /\ ho_for' = stage_args[s].version
            /\ ho_pc' = "new"
            /\ ap_pc' = "done"
            /\ handoffs' = handoffs + 1
  /\ UNCHANGED <<platform, run_version, ho_path, ho_target, stage_args, stage_seq,
                 root_cfg, ap_argv, ap_by>>
  /\ HoFrame

\* one installation of FirstVersion, not yet started
InitHoVars ==
  /\ ho_pc = "off"
  /\ platform = "posix"
  /\ sys_argv = <<>>
  /\ run_version = None
  /\ ho_path = None
  /\ ho_target = None
  /\ stage_args = [s \in HoVersions |-> NoArgs]
  /\ stage_seq = 0
  /\ root = [n \in RootNames |-> IF n = "app" THEN FirstVersion ELSE None]
  /\ root_cfg = FirstVersion
  /\ ap_pc = "none"
  /\ ap_argv = <<>>
  /\ ap_by = None
  /\ ap_saved = NoArgs
  /\ ap_newest = NoArgs
  /\ applied = {}
  /\ ho_for = None
  /\ handoffs = 0

NextHo ==
  \/ \E argv \in RunArgvs : \E p \in {"posix", "win32"} : Launch(argv, p)
  \/ ProcessStarts
  \/ \E p \in {"install", "push", "auto", "call"} : \E v \in HoVersions : StartPath(p, v)
  \/ \E ok \in BOOLEAN : DownloadEnds(ok)
  \/ \E io \in {"ok", "copy fails"} : \E restart \in BOOLEAN : InstallEnds(io, restart)
  \/ CloserFires
  \/ OperatorApply
  \/ ApplyStarts
  \/ Apply

(***************************************************************************)
(* Service.build, Service.release and Service.rollback over the release    *)
(* directory                                                               *)
(***************************************************************************)
\* build, release and rollback calls in one run
MaxRelOps == 3

\* the version directories of this machine
RelDirs == {<<1, 2>>, <<1, 10, 0>>}

\* no directory; the status.json a build writes
NoManifest == [status |-> "absent", rollback_target |-> NoVersion]
DraftManifest == [status |-> "draft", rollback_target |-> NoVersion]

\* the statuses of the release directory, as get_version_list reads them
StatusOf(m) == [v \in CatDirs |-> IF v \in RelDirs THEN m[v].status ELSE "absent"]

NoOp == [op |-> "none", from |-> NoVersion, to |-> NoVersion,
         from_before |-> NoManifest, to_before |-> NoManifest, raised |-> FALSE]

\* rollback's rewrite of from_version's status.json without rollback_target
deprecate_only(md, to_version) == [md EXCEPT !.status = "deprecated"]
\* rollback's rewrite of from_version's status.json
deprecate(md, to_version) ==
  [md EXCEPT !.status = "deprecated", !.rollback_target = to_version]

\* build(version): _prepare_version_dir removes an existing directory and
\* creates it anew, _save_metadata writes status.json with status draft; a
\* failed build removes the directory
Build(v, ok) ==
  /\ man_ops < MaxRelOps
  /\ man_ops' = man_ops + 1
  /\ man' = [man EXCEPT ![v] = IF ok THEN DraftManifest ELSE NoManifest]
  /\ last_op' = [op |-> "build", from |-> v, to |-> NoVersion,
                 from_before |-> man[v], to_before |-> NoManifest, raised |-> ~ok]
  /\ rv_reply' = <<>>
  /\ rv_done' = FALSE
  /\ UNCHANGED <<netVars, cmdVars, updVars, catVars, svcVars, insVars, hoVars, serVars, lateVars>>

\* release(version, approve=True, rollback_target=t): FileNotFoundError
\* without a status.json, else the status is set to approved, whatever it
\* was, and rollback_target when one is given
Release(v, t) ==
  /\ man_ops < MaxRelOps
  /\ man_ops' = man_ops + 1
  /\ man' = IF man[v].status = "absent" THEN man
            ELSE [man EXCEPT ![v] =
                    [status |-> "approved",
                     rollback_target |-> IF t # NoVersion THEN t
                                         ELSE man[v].rollback_target]]
  /\ last_op' = [op |-> "release", from |-> v, to |-> t,
                 from_before |-> man[v], to_before |-> NoManifest,
                 raised |-> (man[v].status = "absent")]
  /\ rv_reply' = <<>>
  /\ rv_done' = FALSE
  /\ UNCHANGED <<netVars, cmdVars, updVars, catVars, svcVars, insVars, hoVars, serVars, lateVars>>

\* rollback(from_version, to_version): FileNotFoundError without a
\* status.json of from_version; else that file is rewritten; then
\* FileNotFoundError without a status.json of to_version, which is only read
RollbackTo(a, b) ==
  /\ man_ops < MaxRelOps
  /\ man_ops' = man_ops + 1
  /\ man' = IF man[a].status = "absent" THEN man
            ELSE [man EXCEPT ![a] = deprecate(man[a], b)]
  /\ last_op' = [op |-> "rollback", from |-> a, to |-> b,
                 from_before |-> man[a], to_before |-> man[b],
                 raised |-> (man[a].status = "absent" \/ man'[b].status = "absent")]
  /\ rv_reply' = <<>>
  /\ rv_done' = FALSE
  /\ UNCHANGED <<netVars, cmdVars, updVars, catVars, svcVars, insVars, hoVars, serVars, lateVars>>

\* _cmd_request_versions: get_version_list over a listing of the directory
RequestVersions ==
  /\ ~rv_done
  /\ rv_done' = TRUE
  /\ \E o \in ListDir(StatusOf(man)) :
       rv_reply' = get_version_list(StatusOf(man), o)
  /\ UNCHANGED <<man, man_ops, last_op>>
  /\ UNCHANGED <<netVars, cmdVars, updVars, catVars, svcVars, insVars, hoVars, serVars, lateVars>>

\* a release directory with 1.2 approved and 1.10.0 built
InitRelVars ==
  /\ man = [v \in RelDirs |->
             IF v = <<1, 2>> THEN [DraftManifest EXCEPT !.status = "approved"]
             ELSE DraftManifest]
  /\ man_ops = 0
  /\ last_op = NoOp
  /\ rv_reply = <<>>
  /\ rv_done = FALSE

NextRel ==
  \/ \E v \in RelDirs : \E ok \in BOOLEAN : Build(v, ok)
  \/ \E v \in RelDirs : \E t \in RelDirs \cup {NoVersion} : Release(v, t)
  \/ \E a, b \in RelDirs : RollbackTo(a, b)
  \/ RequestVersions

(***************************************************************************)
(* EndPoint.bind, _on_client_connect, connect and _remove_socket with the  *)
(* service's next_socket_serial()                                          *)
(***************************************************************************)
\* serials issued in one run
MaxIssued == 4

\* the counter after a call that does not advance it
socket_serial_stuck(c) == c
\* itertools.count(1): the counter after a call of next()
socket_serial_next(c) == c + 1

\* next_socket_serial(): the value is taken and the counter advanced
TakeSerial ==
  /\ socket_serial <= MaxIssued
  /\ socket_serial' = socket_serial_next(socket_serial)
  /\ issued' = Append(issued, socket_serial)

SerFrame ==
  UNCHANGED <<netVars, cmdVars, updVars, catVars, svcVars, insVars, hoVars, relVars, lateVars>>

\* bind: the server socket is registered under a new serial before
\* Socket.bind is awaited
EpBind ==
  /\ TakeSerial
  /\ ep_sockets' = ep_sockets \cup {socket_serial}
  /\ ep_servers' = ep_servers \cup {socket_serial}
  /\ UNCHANGED <<ep_closed, ep_removed, ep_failed>>
  /\ SerFrame

\* _on_client_connect: an accepted connection is registered under a new
\* serial
EpAccept ==
  /\ TakeSerial
  /\ ep_sockets' = ep_sockets \cup {socket_serial}
  /\ UNCHANGED <<ep_servers, ep_closed, ep_removed, ep_failed>>
  /\ SerFrame

\* connect: the serial is taken first; if open_connection raises no socket
\* is registered
EpConnect(ok) ==
  /\ TakeSerial
  /\ ep_sockets' = IF ok THEN ep_sockets \cup {socket_serial} ELSE ep_sockets
  /\ ep_failed' = IF ok THEN ep_failed ELSE ep_failed \cup {socket_serial}
  /\ UNCHANGED <<ep_servers, ep_closed, ep_removed>>
  /\ SerFrame

\* the connection of a registered socket ends (Socket.close, or end of
\* stream in _data_handler)
EpClose(s) ==
  /\ s \in ep_sockets \ ep_closed
  /\ ep_closed' = ep_closed \cup {s}
  /\ UNCHANGED <<socket_serial, issued, ep_sockets, ep_servers, ep_removed, ep_failed>>
  /\ SerFrame

\* _remove_socket, as recv_any calls it for a closed socket
EpRemove(s) ==
  /\ s \in ep_closed
  /\ ep_sockets' = ep_sockets \ {s}
  /\ ep_servers' = ep_servers \ {s}
  /\ ep_closed' = ep_closed \ {s}
  /\ ep_removed' = ep_removed \cup {s}
  /\ UNCHANGED <<socket_serial, issued, ep_failed>>
  /\ SerFrame

\* a service without sockets
InitSerVars ==
  /\ socket_serial = 1
  /\ issued = <<>>
  /\ ep_sockets = {}
  /\ ep_servers = {}
  /\ ep_closed = {}
  /\ ep_removed = {}
  /\ ep_failed = {}

NextSer ==
  \/ EpBind
  \/ EpAccept
  \/ \E ok \in BOOLEAN : EpConnect(ok)
  \/ \E s \in 1..MaxIssued : EpClose(s)
  \/ \E s \in 1..MaxIssued : EpRemove(s)

\* what a machine of the groups below leaves alone
EarlyFrame ==
  UNCHANGED <<netVars, cmdVars, updVars, catVars, svcVars, insVars, hoVars, relVars, serVars>>

(***************************************************************************)
(* Commander.set_command                                                   *)
(***************************************************************************)
\* number of set_command calls of one run of SpecReg
MaxRegs == 3

RegIdents == {"a", "b", "z"}

\* the functions offered for registration: fid names the function object,
\* name is __name__, dec the ident given to @command (None: undecorated),
\* ok whether it is an async function of three parameters
RegFuncs ==
  { [fid |-> 1, name |-> "a", dec |-> None, ok |-> TRUE],
    [fid |-> 2, name |-> "a2", dec |-> "a", ok |-> TRUE],
    [fid |-> 3, name |-> "b", dec |-> None, ok |-> TRUE],
    [fid |-> 4, name |-> "z", dec |-> None, ok |-> FALSE] }

\* the argument lists tried: no function, one, two
RegCalls ==
  {<<>>} \cup {<<f>> : f \in RegFuncs} \cup {<<f, g>> : f, g \in RegFuncs}

\* ident given to the call, else the decorator's, else the function's name
cur_ident(func, ident) ==
  IF ident # None THEN ident
  ELSE IF func.dec # None THEN func.dec ELSE func.name

\* a table that never finds an ident taken
in_cmds_never(cmds, id) == FALSE

\* cur_ident in self._cmds
in_cmds(cmds, id) == cmds[id] # 0

\* the loop over cmd_funcs: the table and the outcome it ends with
RECURSIVE register(_, _, _)
register(cmds, funcs, ident) ==
  IF funcs = <<>> THEN [cmds |-> cmds, result |-> "ok"]
  ELSE LET func == Head(funcs)
           id   == cur_ident(func, ident)
       IN IF ~func.ok THEN [cmds |-> cmds, result |-> "TypeError"]
          ELSE IF in_cmds(cmds, id) THEN [cmds |-> cmds, result |-> "ValueError"]
          ELSE register([cmds EXCEPT ![id] = func.fid], Tail(funcs), ident)

set_command(cmd_funcs, ident) ==
  /\ reg_count < MaxRegs
  /\ reg_count' = reg_count + 1
  /\ reg_call' = [funcs |-> cmd_funcs, ident |-> ident]
  /\ IF cmd_funcs = <<>> \/ (Len(cmd_funcs) > 1 /\ ident # None)
     THEN /\ reg_result' = "ValueError"
          /\ UNCHANGED reg_cmds
     ELSE LET r == register(reg_cmds, cmd_funcs, ident)
          IN /\ reg_cmds' = r.cmds
             /\ reg_result' = r.result
  /\ EarlyFrame
  /\ UNCHANGED <<rfVars, rqVars>>

InitRegVars ==
  /\ reg_cmds = [i \in RegIdents |-> 0]
  /\ reg_call = [funcs |-> <<>>, ident |-> None]
  /\ reg_result = None
  /\ reg_count = 0

NextReg == \E fs \in RegCalls : \E id \in RegIdents \cup {None} : set_command(fs, id)

(***************************************************************************)
(* Socket.recv_file                                                        *)
(***************************************************************************)
\* number of frames that arrive in one run of SpecRf
MaxRfFrames == 4

\* the frames that arrive, as the characters of their bytes
RfFrames == { <<"0">>, <<"2">>, <<"3">>, <<"-", "1">>, <<"x">>, <<"x", "y">> }

DigitVal(c) ==
  CASE c = "0" -> 0 [] c = "1" -> 1 [] c = "2" -> 2 [] c = "3" -> 3
    [] c = "4" -> 4 [] c = "5" -> 5 [] c = "6" -> 6 [] c = "7" -> 7
    [] c = "8" -> 8 [] c = "9" -> 9 [] OTHER -> -1

RECURSIVE DigitsVal(_, _)
DigitsVal(s, acc) ==
  IF s = <<>> THEN acc ELSE DigitsVal(Tail(s), acc * 10 + DigitVal(Head(s)))

\* int(text): an optional sign and decimal digits; anything else raises
\* ValueError (ok = FALSE)
int(s) ==
  LET signed == s # <<>> /\ Head(s) \in {"-", "+"}
      digits == IF signed THEN Tail(s) ELSE s
      ok     == digits # <<>> /\ \A k \in 1..Len(digits) : DigitVal(digits[k]) >= 0
  IN [ok |-> ok,
      val |-> IF ~ok THEN 0
              ELSE IF signed /\ Head(s) = "-" THEN 0 - DigitsVal(digits, 0)
              ELSE DigitsVal(digits, 0)]

RfFrame == EarlyFrame /\ UNCHANGED <<regVars, rqVars>>

\* _data_handler puts one more frame on the queue
RfArrive(f) ==
  /\ rf_arrived < MaxRfFrames
  /\ rf_arrived' = rf_arrived + 1
  /\ rf_in' = Append(rf_in, f)
  /\ UNCHANGED <<rf_pc, rf_opened, rf_fsize, rf_rsize, rf_file, rf_taken>>
  /\ RfFrame

\* while rsize < fsize
loop_goes_on(rsize, fsize) == rsize < fsize

\* fsize = int(await self.recv_str()); rsize = 0; the file is opened for
\* writing; a ValueError is logged and recv_file returns
RfSize ==
  /\ rf_pc = "size"
  /\ rf_in # <<>>
  /\ rf_in' = Tail(rf_in)
  /\ LET n == int(Head(rf_in))
     IN IF ~n.ok
        THEN /\ rf_pc' = "returned"
             /\ UNCHANGED <<rf_opened, rf_fsize, rf_rsize, rf_file>>
        ELSE /\ rf_opened' = TRUE
             /\ rf_fsize' = n.val
             /\ rf_rsize' = 0
             /\ rf_file' = <<>>
             /\ rf_pc' = IF loop_goes_on(0, n.val) THEN "chunk" ELSE "returned"
  /\ UNCHANGED <<rf_arrived, rf_taken>>
  /\ RfFrame

\* chunk = await self.recv(); rsize += len(chunk); write; an overrun raises
RfChunk ==
  /\ rf_pc = "chunk"
  /\ rf_in # <<>>
  /\ rf_in' = Tail(rf_in)
  /\ LET chunk == Head(rf_in)
         rsize == rf_rsize + Len(chunk)
     IN /\ rf_rsize' = rsize
        /\ rf_file' = rf_file \o chunk
        /\ rf_taken' = Append(rf_taken, chunk)
        /\ rf_pc' = IF rsize > rf_fsize THEN "raised"
                    ELSE IF loop_goes_on(rsize, rf_fsize) THEN "chunk"
                    ELSE "returned"
  /\ UNCHANGED <<rf_arrived, rf_opened, rf_fsize>>
  /\ RfFrame

InitRfVars ==
  /\ rf_in = <<>>
  /\ rf_arrived = 0
  /\ rf_pc = "size"
  /\ rf_opened = FALSE
  /\ rf_fsize = 0
  /\ rf_rsize = 0
  /\ rf_file = <<>>
  /\ rf_taken = <<>>

NextRf ==
  \/ \E f \in RfFrames : RfArrive(f)
  \/ RfSize
  \/ RfChunk

(***************************************************************************)
(* Updater.fetch_versions, fetch_latest_version, download_update           *)
(***************************************************************************)
\* number of calls of the request methods in one run of SpecRq
MaxRqCalls == 2

RqKinds == {"versions", "latest", "download"}

RqVersions == {"1.0.0", "1.1.0"}

\* a stored field before any reply; for is the number of the request a
\* reply answers (history: the protocol carries no such number)
NoData == [data |-> None, for |-> 0]

RqFrame == EarlyFrame /\ UNCHANGED <<regVars, rfVars>>

\* the Event is cleared and the field reset before the request is sent
clear(f, kind, v) == [f EXCEPT ![kind] = v]

\* the method clears its Event, resets its field, sends its request and
\* enters wait_for
RqCall(kind, version) ==
  /\ rq_pc = "idle"
  /\ rq_count < MaxRqCalls
  /\ (kind = "download") = (version # None)
  /\ rq_count' = rq_count + 1
  /\ rq_call' = [id |-> rq_count + 1, kind |-> kind, version |-> version]
  /\ rq_event' = clear(rq_event, kind, FALSE)
  /\ rq_value' = clear(rq_value, kind, NoData)
  /\ srv_in' = Append(srv_in, rq_call')
  /\ rq_pc' = "wait"
  /\ UNCHANGED <<rq_result, rq_in, srv_latest>>
  /\ RqFrame

\* the Releaser handles the next request: the versions it has now, or the
\* completion notice of the version asked for
SrvAnswer ==
  /\ srv_in # <<>>
  /\ LET q == Head(srv_in)
     IN rq_in' = Append(rq_in,
                  [kind |-> q.kind, for |-> q.id,
                   data |-> IF q.kind = "download" THEN q.version ELSE srv_latest])
  /\ srv_in' = Tail(srv_in)
  /\ UNCHANGED <<rq_pc, rq_call, rq_count, rq_event, rq_value, rq_result, srv_latest>>
  /\ RqFrame

\* a newer version is released on the server
SrvPublish ==
  /\ srv_latest = "1.0.0"
  /\ srv_latest' = "1.1.0"
  /\ UNCHANGED <<rq_pc, rq_call, rq_count, rq_event, rq_value, rq_result, srv_in, rq_in>>
  /\ RqFrame

\* _cmd_receive_versions, _cmd_receive_latest_version, _cmd_download_complete:
\* the body is stored and the Event set
RqReceive ==
  /\ rq_in # <<>>
  /\ LET r == Head(rq_in)
     IN /\ rq_value' = [rq_value EXCEPT ![r.kind] = [data |-> r.data, for |-> r.for]]
        /\ rq_event' = [rq_event EXCEPT ![r.kind] = TRUE]
  /\ rq_in' = Tail(rq_in)
  /\ UNCHANGED <<rq_pc, rq_call, rq_count, rq_result, srv_in, srv_latest>>
  /\ RqFrame

\* wait_for returns: the method returns the stored field
RqReturn ==
  /\ rq_pc = "wait"
  /\ rq_event[rq_call.kind]
  /\ rq_result' = [out |-> "returned", call |-> rq_call.id,
                   data |-> rq_value[rq_call.kind].data,
                   for |-> rq_value[rq_call.kind].for]
  /\ rq_pc' = "idle"
  /\ UNCHANGED <<rq_call, rq_count, rq_event, rq_value, srv_in, rq_in, srv_latest>>
  /\ RqFrame

\* wait_for times out: TimeoutError
RqTimeout ==
  /\ rq_pc = "wait"
  /\ ~rq_event[rq_call.kind]
  /\ rq_result' = [out |-> "TimeoutError", call |-> rq_call.id, data |-> None, for |-> 0]
  /\ rq_pc' = "idle"
  /\ UNCHANGED <<rq_call, rq_count, rq_event, rq_value, srv_in, rq_in, srv_latest>>
  /\ RqFrame

InitRqVars ==
  /\ rq_pc = "idle"
  /\ rq_call = [id |-> 0, kind |-> None, version |-> None]
  /\ rq_count = 0
  /\ rq_event = [k \in RqKinds |-> FALSE]
  /\ rq_value = [k \in RqKinds |-> NoData]
  /\ rq_result = [out |-> None, call |-> 0, data |-> None, for |-> 0]
  /\ srv_in = <<>>
  /\ rq_in = <<>>
  /\ srv_latest = "1.0.0"

NextRq ==
  \/ \E k \in RqKinds : \E v \in RqVersions \cup {None} : RqCall(k, v)
  \/ SrvAnswer
  \/ SrvPublish
  \/ RqReceive
  \/ RqReturn
  \/ RqTimeout

InitLateVars == InitRegVars /\ InitRfVars /\ InitRqVars

InitExtVars ==
  /\ InitCatVars /\ InitSvcVars /\ InitInsVars /\ InitHoVars /\ InitRelVars
  /\ InitSerVars /\ InitLateVars

Init == InitNetVars /\ InitCmdVars /\ InitUpdVars /\ InitExtVars

Next ==
  \/ Connect
  \/ \E s \in Serials : \E f \in FramesIn(arrived[s] + 1) : Arrive(s, f)
  \/ ReceivePoll
  \/ ReceiveWake
  \/ ReceiveCancel
  \/ \E ident \in Idents : ExtCall(ident)
  \/ \E t \in Tasks : HandlerStep(t)

Spec == Init /\ [][Next]_vars

SpecNet == Init /\ [][NextNet]_vars

SpecRaw == Init /\ [][NextRaw]_vars

SpecReg == Init /\ [][NextReg]_vars

SpecRf == Init /\ [][NextRf]_vars

SpecRq == Init /\ [][NextRq]_vars

(***************************************************************************)
(* EndPoint.recv_any called in a loop by one task, with frames arriving    *)
(* without end: at most MaxQueue frames wait in a queue, and the frames of *)
(* a connection carry the tags 1..MaxQueue+1 in turn.                      *)
(***************************************************************************)
TagMod == MaxQueue + 1

\* a handler that enqueues a frame and leaves _recv_event as it is
ArriveAnySilent(s) ==
  /\ IsOpen(s)
  /\ Len(sock_queue[s]) < MaxQueue
  /\ LET n == (arrived[s] % TagMod) + 1
     IN /\ sock_queue' = [sock_queue EXCEPT ![s] = Append(@, Envelope("ok", n))]
        /\ arrived' = [arrived EXCEPT ![s] = n]
  /\ UNCHANGED <<next_serial, data_sockets, sock_closed, r_pc, r_cur, r_exc,
                 handle_lock, call_stack, act, x_count, x_result,
                 started, finished, faults, ra_ret, recv_event>>
  /\ UNCHANGED <<netVars, updVars, extVars>>

\* _data_handler of socket s enqueues a frame and sets _recv_event
ArriveAny(s) ==
  /\ IsOpen(s)
  /\ Len(sock_queue[s]) < MaxQueue
  /\ LET n == (arrived[s] % TagMod) + 1
     IN /\ sock_queue' = [sock_queue EXCEPT ![s] = Append(@, Envelope("ok", n))]
        /\ arrived' = [arrived EXCEPT ![s] = n]
  /\ recv_event' = TRUE
  /\ UNCHANGED <<next_serial, data_sockets, sock_closed, r_pc, r_cur, r_exc,
                 handle_lock, call_stack, act, x_count, x_result,
                 started, finished, faults, ra_ret>>
  /\ UNCHANGED <<netVars, updVars, extVars>>

\* recv_any from its for loop: it returns the frame of the first socket of
\* the map that has one, and is called again; with no frame it clears
\* _recv_event and waits
RecvAnyPoll ==
  /\ r_pc = "poll"
  /\ LET p  == PollFrom(data_sockets, 1)
         ds == Without(data_sockets, p.removed)
     IN /\ data_sockets' = ds
        /\ IF ~p.found
           THEN /\ recv_event' = FALSE
                /\ r_pc' = "wait"
                /\ UNCHANGED <<sock_queue, ra_ret>>
           ELSE LET g == GetNowait(sock_queue[p.serial])
                IN /\ sock_queue' = [sock_queue EXCEPT ![p.serial] = g.rest]
                   /\ ra_ret' = [serial |-> p.serial, n |-> g.item.n]
                   /\ UNCHANGED <<recv_event, r_pc>>
  /\ UNCHANGED <<next_serial, sock_closed, arrived, r_cur, r_exc, handle_lock,
                 call_stack, act, x_count, x_result, started, finished, faults>>
  /\ UNCHANGED <<netVars, updVars, extVars>>

NextRecvAny ==
  \/ Connect
  \/ \E s \in Serials : ArriveAny(s)
  \/ \E s \in Serials : PeerClose(s)
  \/ RecvAnyPoll
  \/ ReceiveWake

\* the caller's task is scheduled whenever it is ready to run
SpecRecvAny ==
  Init /\ [][NextRecvAny]_vars /\ WF_vars(RecvAnyPoll) /\ WF_vars(ReceiveWake)

SpecUpd == Init /\ [][NextUpd]_vars

SpecPush == Init /\ [][NextPush]_vars

\* the Releaser over a changing release directory
SpecCat == Init /\ [][NextCat]_vars

\* a Service in run mode
SpecSvc == Init /\ [][NextSvc]_vars

\* the same, when run() and destroy() do end and the loop goes on running
\* what is ready to run
SpecSvcLive ==
  /\ Init /\ [][NextSvc]_vars
  /\ WF_vars(\E o \in {"returned", "raised", "cancelled"} : RunEnds(o))
  /\ WF_vars(\E o \in {"returned", "raised", "cancelled"} : DestroyEnds(o))
  /\ WF_vars(GatherEnds)
  /\ WF_vars(DrainEnds)
  /\ WF_vars(CloserStep)

\* an Updater installing staged versions
SpecIns == Init /\ [][NextIns]_vars

\* the self-replacement handoff alone
SpecHo == Init /\ [][NextHo]_vars

\* the release directory alone
SpecRel == Init /\ [][NextRel]_vars

\* the serials alone
SpecSer == Init /\ [][NextSer]_vars


(***************************************************************************)
(* C1: on an established connection every frame the sender writes reaches  *)
(* the receiver's queue exactly once, with the same payload and in the     *)
(* order written, unless the connection fails: the frames delivered so far *)
(* (those recv() returned, then those still queued) are always a prefix of *)
(* the frames written, none duplicated, cut short or out of order, and     *)
(* they are all of them once the open stream has been read to its end.     *)
(***************************************************************************)
NetDelivered == received \o recv_queue

C1_FramesDeliveredOnceInOrder ==
  /\ Len(NetDelivered) <= Len(written)
  /\ \A k \in 1..Len(NetDelivered) : NetDelivered[k] = written[k]
  /\ (conn = "open" /\ h_pc = "header" /\ wire = <<>>)
       => Len(NetDelivered) = Len(written)

\* a message of more than MaxSize bytes went out as two frames, a third
\* frame followed, and all three were delivered on the open connection
C1_Witness ==
  /\ conn = "open"
  /\ h_pc = "header"
  /\ Len(received) >= 3
  /\ \E k \in 1..(Len(received) - 1) :
       /\ received[k][1].id = received[k + 1][1].id
       /\ received[k][1].len = MaxSize
       /\ received[k + 1][1].off = MaxSize
(***************************************************************************)
(* C2: a handler's exception is contained by the dispatcher: for every     *)
(* frame whose handler raised, the receive loop keeps running and the      *)
(* socket the frame came on is not closed (unless the loop was cancelled). *)
(***************************************************************************)
LoopSurvives(f) ==
  \/ r_exc = "CancelledError"
  \/ r_pc # "done" /\ ~sock_closed[f.serial]

C2_HandlerExceptionContained ==
  \A f \in faults : f.exc = "HandlerError" => LoopSurvives(f)

(***************************************************************************)
(* C3: a frame that is not JSON, or that names an ident nobody registered, *)
(* is dropped: its connection stays open and the receive loop goes on.     *)
(***************************************************************************)
C3_BadFrameDropped ==
  \A f \in faults : f.exc \in {"JSONDecodeError", "KeyError"} => LoopSurvives(f)

(***************************************************************************)
(* C4: handler bodies are serialized: at most one outermost invocation of  *)
(* call() is inside _execute at any time, suspended or not; a call() from  *)
(* a task that is not inside a handler waits for handle_lock.              *)
(***************************************************************************)
TopLevelRunning(t) == act[t] # <<>> /\ act[t][1].pc # "lock"

C4_HandlersSerialized == ~(TopLevelRunning("R") /\ TopLevelRunning("X"))

(***************************************************************************)
(* C5: a call() made by a handler on its own dispatcher, the call stack    *)
(* being non-empty, runs without acquiring handle_lock: the nested         *)
(* activation never waits for the lock nor holds it, and the task can      *)
(* always take its next step, so the nested call completes.                *)
(***************************************************************************)
C5_NestedCallBypassesLock ==
  \A t \in Tasks :
    Len(act[t]) >= 2 =>
      /\ \A k \in 2..Len(act[t]) : act[t][k].pc # "lock" /\ ~act[t][k].locked
      /\ CanStep(t)

\* the nested call of a handler that holds handle_lock has returned
C5_Witness ==
  \E t \in Tasks :
    /\ Len(act[t]) = 1
    /\ act[t][1].ident = "nest"
    /\ act[t][1].pc = "tail"
    /\ act[t][1].locked
    /\ handle_lock = t

(***************************************************************************)
(* C6: within one connection the envelopes reach their handlers in the     *)
(* order their frames arrived, and the handler of a frame starts only when *)
(* the handlers of all earlier frames of the connection have ended.        *)
(***************************************************************************)
C6_DispatchInArrivalOrder ==
  \A s \in Serials :
    /\ \A k \in 1..Len(started[s]) : started[s][k] = k
    /\ \A k \in 1..(Len(started[s]) - 1) : started[s][k] \in finished[s]

\* two frames of one connection were queued together and both dispatched
C6_Witness ==
  \E s \in Serials : started[s] = <<1, 2>> /\ finished[s] = {1, 2}

(***************************************************************************)
(* C7: recv_any does not starve a ready data socket: a frame at the head   *)
(* of a socket's queue is eventually returned by recv_any, whatever        *)
(* arrives on the other sockets.                                           *)
(***************************************************************************)
C7_NoStarvation ==
  \A s \in Serials : \A n \in 1..TagMod :
    (sock_queue[s] # <<>> /\ Head(sock_queue[s]).n = n)
      ~> (ra_ret = [serial |-> s, n |-> n])
(***************************************************************************)
(* C8: a client that receives __apply_update__ {version, restart} for a    *)
(* version the Releaser serves downloads it to completion and then, with   *)
(* restart true, schedules the restart: once the handler has ended (the    *)
(* release directory untouched, no other download in the way, no timeout   *)
(* before its time) the files are staged, the closer that starts the       *)
(* successor is registered and the stop flag is set.                       *)
(***************************************************************************)
C8_ApplyDownloadsThenRestarts ==
  (/\ a_result # None
   /\ loop_body.version \in Versions
   /\ loop_body.restart
   /\ timely
   /\ tampered = 0
   /\ d_count = 0)
  => /\ a_result = "restarted"
     /\ \A k \in 1..Len(Files) : stage[Files[k].path] = Intact(Files[k])
     /\ closers # <<>>
     /\ sigterm

(***************************************************************************)
(* C9: whenever the Updater records a download as complete, every file of *)
(* the manifest announced in __download_start__ is in the stage directory  *)
(* with the declared size and a matching checksum.                         *)
(***************************************************************************)
C9_CompleteMeansVerified ==
  \A r \in recorded : \A k \in 1..Len(r.files) :
    LET f == r.files[k]
        c == r.stage[f.path]
    IN /\ c # Missing
       /\ c.size = f.size
       /\ CalculateChecksum(c) = f.checksum

\* download_update returned the version of a download of the whole manifest
C9_Witness ==
  /\ d_result = "1.0"
  /\ \E r \in recorded : r.version = "1.0" /\ r.files = Files

(***************************************************************************)
(* C10: when a received file's size or checksum does not match its         *)
(* manifest entry, the partial file is deleted and the pending             *)
(* download_update is released with an error reporting the integrity       *)
(* failure; it does not return the version.                                *)
(***************************************************************************)
C10_IntegrityFailurePropagates ==
  integrity # {} =>
    /\ \A p \in integrity : stage[p] = Missing
    /\ (d_pc = "done" /\ timely) => d_result = "RuntimeError"

(***************************************************************************)
(* Claims about the Releaser over its catalog (SpecCat)                    *)
(***************************************************************************)
\* the lengths of the content frames of s, summed
RECURSIVE SumLen(_)
SumLen(s) == IF s = <<>> THEN 0 ELSE Head(s).len + SumLen(Tail(s))

\* s is, for each entry of fs in turn, a frame with its size followed by
\* content frames whose lengths sum to that size
RECURSIVE IsStreamOf(_, _)
IsStreamOf(s, fs) ==
  IF fs = <<>> THEN s = <<>>
  ELSE /\ s # <<>>
       /\ s[1] = SizeFrame(Head(fs).size)
       /\ \E n \in 1..Len(s) :
            /\ \A j \in 2..n : s[j].kind = "chunk"
            /\ SumLen(SubSeq(s, 2, n)) = Head(fs).size
            /\ IsStreamOf(SubSeq(s, n + 1, Len(s)), Tail(fs))

\* the request dispatched last is a download the handler does not refuse:
\* the version is in self.versions and its manifest lists files
Accepted ==
  /\ cat_req.ident = "__download_update__"
  /\ InSeq(cat_req.version, versions)
  /\ HasMetadata(cat_at[cat_req.version])
  /\ Manifest(cat_req.version) # <<>>

C12_UnapprovedRefused ==
  (/\ cat_req.ident = "__download_update__"
   /\ cat_at[cat_req.version] # "approved")
  => /\ Len(cat_sent) <= 1
     /\ \A k \in 1..Len(cat_sent) :
          cat_sent[k].kind = "cmd" /\ cat_sent[k].ident = "__download_failed__"
     /\ (~cat_closed /\ cat_pc = "recv") => Len(cat_sent) = 1

\* a version as one number, for components below 1000
Rank(t) == t[1] * 1000000 + t[2] * 1000 + t[3]

\* the versions whose status.json said approved when the request was handled
ApprovedAt == {v \in CatDirs : cat_at[v] = "approved"}

(***************************************************************************)
(* C13: the reply to __request_versions__ lists exactly the versions whose *)
(* status.json has status approved when the request is handled, each once, *)
(* in ascending order of the parsed version tuple.                         *)
(***************************************************************************)
C13_VersionsReplyApprovedAscending ==
  (cat_req.ident = "__request_versions__" /\ cat_sent # <<>>) =>
    LET r == cat_sent[1].payload
    IN /\ cat_sent = <<Reply("__receive_versions__", r)>>
       /\ {r[k] : k \in 1..Len(r)} = ApprovedAt
       /\ Len(r) = Cardinality(ApprovedAt)
       /\ \A i, j \in 1..Len(r) :
            i < j => Rank(parse_version(r[i])) <= Rank(parse_version(r[j]))

\* the reply lists 1.2 before 1.10.0
C13_Witness ==
  /\ cat_req.ident = "__request_versions__"
  /\ cat_sent = <<Reply("__receive_versions__", << <<1, 2>>, <<1, 10, 0>> >>)>>

(***************************************************************************)
(* C14: the reply to __request_latest_version__ is the greatest, by        *)
(* numeric version tuple, of the versions approved in the catalog when the *)
(* request is handled, or null when none is approved.                      *)
(***************************************************************************)
C14_LatestIsGreatestApproved ==
  (cat_req.ident = "__request_latest_version__" /\ cat_sent # <<>>) =>
    LET r == cat_sent[1].payload
    IN /\ cat_sent = <<Reply("__receive_latest_version__", r)>>
       /\ IF ApprovedAt = {}
          THEN r = NoVersion
          ELSE /\ r \in ApprovedAt
               /\ \A v \in ApprovedAt :
                    Rank(parse_version(v)) <= Rank(parse_version(r))

(***************************************************************************)
(* C15: when the Releaser answers a download request with                 *)
(* __download_failed__, be it instead of __download_start__ or after it,   *)
(* download_update raises an error that carries the Releaser's error       *)
(* message and does not return a version (no wait_for having timed out     *)
(* before its time).                                                       *)
(***************************************************************************)
C15_FailedEnvelopeRaises ==
  (d_pc = "done" /\ d_failed # None /\ timely) =>
    /\ d_result = "RuntimeError"
    /\ d_msg = d_failed
    /\ d_result \notin AskedVersions

(***************************************************************************)
(* Claims about the Service in run mode (SpecSvc)                          *)
(***************************************************************************)
(***************************************************************************)
(* C16: a registered closer is invoked only after destroy() has finished,  *)
(* every registered task has been cancelled or has completed, and the      *)
(* event loop has been closed.                                             *)
(***************************************************************************)
C16_ClosersAfterTeardown ==
  closer_calls # <<>> =>
    /\ destroy_end # None
    /\ loop_closed
    /\ \A t \in Registered : TaskDone(t)

(***************************************************************************)
(* C17: at teardown every registered closer is invoked exactly once, in    *)
(* registration order, whether or not an earlier closer raised.            *)
(***************************************************************************)
C17_EveryCloserOnceInOrder ==
  run_pc = "end" =>
    closer_calls = [k \in 1..Len(svc_closers) |-> svc_closers[k].id]

\* p is q up to some position
IsPrefix(p, q) == Len(p) <= Len(q) /\ \A k \in 1..Len(p) : p[k] = q[k]

\* the order in which the status has been set so far is a beginning of one
\* of the two full orders
StatusInOrder(log) ==
  \/ IsPrefix(log, <<"Initting", "Running", "Stopping", "Stopped">>)
  \/ IsPrefix(log, <<"Initting", "Stopping", "Stopped">>)

(***************************************************************************)
(* C18: in every execution of the main service task the status takes the   *)
(* values Initting, then optionally Running, then Stopping, then Stopped,  *)
(* in that order and with no other transition, and the task ends with the  *)
(* status Stopped, also when init(), run() or destroy() raises.            *)
(***************************************************************************)
C18_StatusSequence ==
  /\ StatusInOrder(status_log)
  /\ svc_pc = "done" => status = "Stopped"

(***************************************************************************)
(* C19: if init() raises or is cancelled, the stop flag is set, the status *)
(* never becomes Running, run() is never invoked and destroy() is invoked  *)
(* exactly once.                                                           *)
(***************************************************************************)
C19_InitFailureSkipsRun ==
  init_end \in {"raised", "cancelled"} =>
    /\ svc_sigterm
    /\ ~InSeq("Running", status_log)
    /\ status # "Running"
    /\ run_calls = 0
    /\ destroy_calls = 1

\* init() was cancelled by a KeyboardInterrupt and the task ran to its end
C19_Witness ==
  /\ init_end = "cancelled"
  /\ svc_pc = "done"
  /\ destroy_end = "returned"
  /\ status_log = <<"Initting", "Stopping", "Stopped">>

(***************************************************************************)
(* C20: after install_update has succeeded for the target version V, the   *)
(* value of PSVC\version in the config file and the service's version both *)
(* equal V.                                                                *)
(***************************************************************************)
C20_InstallPersistsVersion ==
  ins_result = "ok" =>
    /\ ins_target \in InsVersions
    /\ cfg_file = ins_target
    /\ cfg_mem = ins_target
    /\ svc_version = ins_target

\* a second install, of the version named by the Releaser, succeeded
C20_Witness ==
  /\ ins_result = "ok"
  /\ ins_count = 2
  /\ ins_target = "1.1.0"
  /\ cfg_file = "1.1.0"
  /\ deployed = "1.1.0"

C22_ManifestConsumedOnce ==
  \A s \in applied : s \notin WithArgs

(***************************************************************************)
(* C23: neither the install step nor the apply step places a               *)
(* saved_args.json from the stage in the install root.                     *)
(***************************************************************************)
C23_ManifestNotInRoot ==
  root["saved_args.json"] = None

(***************************************************************************)
(* C24: when several stage directories hold a saved_args.json, apply uses  *)
(* the most recent one.                                                    *)
(***************************************************************************)
C24_ApplyUsesMostRecent ==
  ap_saved = ap_newest

\* the arguments of a command line without the mode tokens apply, build and
\* release and the options that follow them
ModeTokens == {"apply", "build", "release"}
WithoutModes(a) == IF a # <<>> /\ a[1] \in ModeTokens THEN <<>> ELSE a

(***************************************************************************)
(* C25: the process apply starts is launched with the original argv from   *)
(* which exactly the mode-switching tokens and their option arguments were *)
(* removed; every other original argument is kept, in its order.           *)
(***************************************************************************)
C25_ReplayedArgvPreserved ==
  ap_saved # NoArgs => Tail(sys_argv) = WithoutModes(Tail(ap_saved.argv))

(***************************************************************************)
(* C26: the successor restart_service spawns is launched with the single   *)
(* argument apply, and with that command line it enters apply mode and     *)
(* consumes the saved replay manifest.                                     *)
(***************************************************************************)
C26_ApplyLaunchEntersApply ==
  ap_by = "closer" =>
    /\ ap_argv = <<Executable, "apply">>
    /\ ap_pc \in {"launched", "apply", "done"}

(***************************************************************************)
(* Claims about the release directory (SpecRel)                            *)
(***************************************************************************)
\* the place of a status on the way draft, approved, deprecated
StatusRank(st) ==
  CASE st = "draft" -> 1 [] st = "approved" -> 2 [] st = "deprecated" -> 3

(***************************************************************************)
(* C27: a version's status only moves forward along draft, approved,       *)
(* deprecated: no build, release (approve) or rollback moves a version     *)
(* from deprecated back to approved or draft, or from approved to draft.   *)
(***************************************************************************)
C27_StatusForwardOnly ==
  [][\A v \in RelDirs :
       (man[v].status # "absent" /\ man'[v].status # "absent")
          => StatusRank(man'[v].status) >= StatusRank(man[v].status)]_vars

\* the last operation was a rollback from one approved version to another
RolledBack ==
  /\ last_op.op = "rollback"
  /\ last_op.from # last_op.to
  /\ last_op.from_before.status = "approved"
  /\ last_op.to_before.status = "approved"

(***************************************************************************)
(* C28: after a rollback from version A to version B (both approved) A's   *)
(* manifest has status deprecated and rollback_target B, B's manifest is   *)
(* unchanged, and a following __request_versions__ lists B but not A.      *)
(***************************************************************************)
C28_RollbackEffect ==
  RolledBack =>
    /\ ~last_op.raised
    /\ man[last_op.from] = [status |-> "deprecated", rollback_target |-> last_op.to]
    /\ man[last_op.to] = last_op.to_before
    /\ rv_done => (InSeq(last_op.to, rv_reply) /\ ~InSeq(last_op.from, rv_reply))

\* 1.10.0, approved with a rollback target of its own, was rolled back to
\* 1.2 and the versions were then requested
C28_Witness ==
  /\ RolledBack
  /\ last_op.from = <<1, 10, 0>>
  /\ last_op.from_before.rollback_target = <<1, 10, 0>>
  /\ rv_done
  /\ rv_reply = << <<1, 2>> >>

(***************************************************************************)
(* Claim about the connection serials (SpecSer)                            *)
(***************************************************************************)
(***************************************************************************)
(* C29: connection serials are strictly increasing in order of issue and   *)
(* no serial is issued twice, also after the socket that held it has been  *)
(* closed and removed and also for serials taken by a connect attempt that *)
(* failed.                                                                 *)
(***************************************************************************)
C29_SerialsNeverReused ==
  /\ \A i, j \in 1..Len(issued) : i < j => issued[i] < issued[j]
  /\ \A s \in ep_sockets \cup ep_removed \cup ep_failed : InSeq(s, issued)

\* serials were issued after one socket had been removed and one connect
\* had failed
C29_Witness ==
  /\ \E s \in ep_removed : \E f \in ep_failed :
       \E k \in 1..Len(issued) : issued[k] > s /\ issued[k] > f
  /\ Len(issued) = MaxIssued

(***************************************************************************)
(* C30: the receiver accepts a frame header N only if 1 <= N <= 65536      *)
(* (MaxSize): a header in that range is accepted and its payload is put    *)
(* on the receive queue; a header of 0 or of more than 65536 closes the    *)
(* connection and nothing of that frame is enqueued, then or later.        *)
(***************************************************************************)
\* the handler reads a header in this step
ReadsHeader == h_pc = "header" /\ BytesLen(wire) >= 4 /\ wire' = Drop(wire, 4)

\* the length announced by the header at the front of the stream
Announced == Unpack(Flatten(Take(wire, 4)))

InRange(n) == 1 <= n /\ n <= MaxSize

C30_HeaderStep ==
  ReadsHeader =>
    IF InRange(Announced)
    THEN h_pc' = "body" /\ h_size' = Announced /\ recv_queue' = recv_queue
    ELSE h_pc' = "closed" /\ recv_queue' = recv_queue

C30_BodyStep ==
  (h_pc = "body" /\ h_pc' = "header") =>
    /\ InRange(h_size)
    /\ recv_queue' = Append(recv_queue, Take(wire, h_size))
    /\ BytesLen(Take(wire, h_size)) = h_size

C30_ClosedStep ==
  h_pc = "closed" => (h_pc' = "closed" /\ Len(recv_queue') <= Len(recv_queue))

C30_OnlyBodyEnqueues ==
  Len(recv_queue') > Len(recv_queue) => (h_pc = "body" /\ h_pc' = "header")

C30_HeaderInRangeOrClosed ==
  [][C30_HeaderStep /\ C30_BodyStep /\ C30_ClosedStep /\ C30_OnlyBodyEnqueues]_vars

\* frames of 1 and of MaxSize bytes were enqueued, then a bad header closed
\* the connection
C30_Witness ==
  /\ h_pc = "closed"
  /\ h_exc = "ValueError"
  /\ \E i, j \in 1..Len(recv_queue) \cup {0} :
       /\ i > 0 /\ j > 0
       /\ BytesLen(recv_queue[i]) = 1
       /\ BytesLen(recv_queue[j]) = MaxSize

(***************************************************************************)
(* C31: a command envelope whose encoding is longer than 65536 bytes       *)
(* (MaxSize) is rejected at the sender: nothing of it is written, so no    *)
(* two frames on the stream carry bytes of the same message and every      *)
(* frame starts at the first byte of its message.                          *)
(***************************************************************************)
C31_EnvelopeNeverSplit ==
  /\ \A k \in 1..Len(written) : written[k][1].off = 0
  /\ \A j, k \in 1..Len(written) :
       j # k => written[j][1].id # written[k][1].id

(***************************************************************************)
(* C32: a set_command call that offers a function under an ident already   *)
(* in the table (or twice under one ident) raises an error, and no call    *)
(* changes the function an ident is registered to.                         *)
(***************************************************************************)
\* the idents the functions of a call resolve to
CallIdents(call) ==
  {cur_ident(call.funcs[k], call.ident) : k \in 1..Len(call.funcs)}

\* the call offers a function under a registered ident, or two under one
Reregisters(call) ==
  \/ \E id \in CallIdents(call) : reg_cmds[id] # 0
  \/ \E j, k \in 1..Len(call.funcs) :
       j # k /\ cur_ident(call.funcs[j], call.ident) = cur_ident(call.funcs[k], call.ident)

C32_ReregisterRaisesAndKeeps ==
  [][reg_count' # reg_count =>
       /\ Reregisters(reg_call') => reg_result' \in {"ValueError", "TypeError"}
       /\ \A id \in RegIdents : reg_cmds[id] # 0 => reg_cmds'[id] = reg_cmds[id]]_vars

\* function 2 (decorated with ident a) was offered while a was held by
\* function 1: the call raised and a is still function 1
C32_Witness ==
  /\ reg_result = "ValueError"
  /\ Len(reg_call.funcs) = 1
  /\ reg_call.funcs[1].fid = 2
  /\ reg_call.ident = None
  /\ reg_cmds["a"] = 1

(***************************************************************************)
(* C33: recv_file returns normally only after it has taken a size frame    *)
(* and content frames whose lengths sum exactly to the declared size, and  *)
(* has written exactly those bytes to the target file; content frames that *)
(* overrun the declared size make it raise.                                *)
(***************************************************************************)
RECURSIVE Concat(_)
Concat(fs) == IF fs = <<>> THEN <<>> ELSE Head(fs) \o Concat(Tail(fs))

C33_ReturnsOnlyWhenComplete ==
  /\ rf_pc = "returned" =>
       /\ rf_opened
       /\ Len(Concat(rf_taken)) = rf_fsize
       /\ rf_file = Concat(rf_taken)
  /\ (rf_opened /\ rf_taken # <<>> /\ Len(Concat(rf_taken)) > rf_fsize) =>
       rf_pc = "raised"

(***************************************************************************)
(* C34: when a data connection has ended (its socket is closed), its       *)
(* serial is eventually removed from the EndPoint's maps, whether or not   *)
(* another frame arrives on any connection.                                *)
(***************************************************************************)
InMaps(s) == \E k \in 1..Len(data_sockets) : data_sockets[k] = s

C34_ClosedSocketRemoved ==
  \A s \in Serials : (sock_closed[s] /\ InMaps(s)) ~> ~InMaps(s)

(***************************************************************************)
(* C37: recv_any has no lost wake-up: whenever a frame is queued on a      *)
(* registered data socket, whatever recv_any was doing when it was put     *)
(* there (polling, clearing the event, waiting), recv_any goes on to take  *)
(* a frame from a queue and return it.                                     *)
(***************************************************************************)
FrameQueued == \E s \in Serials : InMaps(s) /\ sock_queue[s] # <<>>

\* recv_any returns: get_nowait shortens a queue
RecvAnyReturns == \E s \in Serials : Len(sock_queue'[s]) < Len(sock_queue[s])

\* a queued frame stays queued until recv_any takes it, so recv_any blocking
\* for ever with a frame queued is: from some point on a frame is queued
\* and recv_any does not return
C37_NoLostWakeup == []<>(~FrameQueued) \/ []<><<RecvAnyReturns>>_vars

\* a frame was put on a queue after recv_any, having returned one before,
\* found nothing, cleared the event and began to wait
C37_Witness ==
  /\ r_pc = "wait"
  /\ recv_event
  /\ ra_ret.serial # 0
  /\ FrameQueued

(***************************************************************************)
(* C35: once the stop flag is set while the service is Running, no further *)
(* run() is started, destroy() is invoked and the status goes on to        *)
(* Stopped.  Stated for the executions in which _run is not left by a      *)
(* KeyboardInterrupt during its second gather, which ends the process with *)
(* the task unfinished.                                                    *)
(***************************************************************************)
C35_StopLeadsToStopped ==
  /\ [][svc_sigterm => run_calls' = run_calls]_vars
  /\ \/ <>(run_pc = "interrupted")
     \/ (svc_sigterm /\ status = "Running")
          ~> (destroy_calls = 1 /\ status = "Stopped")

(***************************************************************************)
(* C36: what a request method of the Updater returns was produced in       *)
(* response to that same request: never the reply to an earlier request    *)
(* that had timed out, nor the completion notice of another version.       *)
(***************************************************************************)
C36_ReplyBelongsToRequest ==
  rq_result.out = "returned" =>
    /\ rq_result.for = rq_result.call
    /\ (rq_result.call = rq_call.id /\ rq_call.kind = "download")
         => rq_result.data = rq_call.version

(***************************************************************************)
(* C38: at most one successor process is spawned when the service exits:   *)
(* however many times a restart was requested before the shutdown, no more *)
(* than one closer that spawns the successor is run.                       *)
(***************************************************************************)
SpawnersRun == {k \in 1..Len(closer_calls) : svc_closers[closer_calls[k]].spawns}

C39_FailedRollbackChangesNothing ==
  (last_op.op = "rollback" /\ last_op.raised) =>
    /\ man[last_op.from] = last_op.from_before
    /\ man[last_op.to] = last_op.to_before

(***************************************************************************)
(* C40: the dispatcher's call stack is balanced: it is exactly as deep as  *)
(* there are calls inside _execute, so that every call, whether its        *)
(* handler returns, raises or is cancelled or its ident is unknown, takes  *)
(* off the entry it put on; the stack is empty whenever no handler is      *)
(* executing, and handle_lock is then free.                                *)
(***************************************************************************)
InExecute == Executing(act["R"]) + Executing(act["X"])

====
